---------------------------- MODULE Spec2Model ----------------------------
(***************************************************************************)
(* SolveAssist AI: the calculation verifier (backend/math_verifier.py) and *)
(* the problem classifier and solution parser (backend/solver.py).         *)
(*                                                                         *)
(* A Python str is a sequence of one-character strings.  The non-ASCII     *)
(* characters of the source are named by the definitions TimesSign,        *)
(* DivSign, SqrtSign, ... below.  A call is modelled as one step from      *)
(* pc = "call" to pc = "done" that leaves the call's outcome in ret:       *)
(* Return(v) for a returned value, Raise(e) for an exception that leaves   *)
(* the function.                                                           *)
(***************************************************************************)
EXTENDS Integers, Sequences, FiniteSets, TLC

VARIABLES pc, op, args, ret, self, local, engine

vars == <<pc, op, args, ret, self, local, engine>>

---------------------------------------------------------------------------
(* Python values and call outcomes *)

PyStr(s) == [type |-> "str", val |-> s]

PyNone == [type |-> "NoneType", val |-> <<>>]

\* symbols('x y z a b c t n m k')
common_symbols == { "x", "y", "z", "a", "b", "c", "t", "n", "m", "k" }

\* the fields of a MathVerifier after __init__
MathVerifier__init__ ==
    [ transformations |-> <<"standard_transformations",
                            "implicit_multiplication_application", "convert_xor">>,
      common_symbols |-> common_symbols ]

\* the fields of a ProblemSolver after __init__: client is None when the
\* client could not be made
ProblemSolver__init__(client) == [client |-> client]

\* a call that talks to no engine and keeps nothing between its steps
NoEngine == [models |-> [raised |-> FALSE, names |-> <<>>], calls |-> <<>>]

NoLocals == <<>>

Return(v) == [kind |-> "return", value |-> v]

Raise(e) == [kind |-> "raise", value |-> e]

Pending == [kind |-> "pending", value |-> "pending"]

---------------------------------------------------------------------------
(* Characters *)

TimesSign == "MULTIPLICATION SIGN"

DivSign == "DIVISION SIGN"

SqrtSign == "SQUARE ROOT"

Superscript2 == "SUPERSCRIPT TWO"

Superscript3 == "SUPERSCRIPT THREE"

PiSign == "GREEK SMALL LETTER PI"

InfinitySign == "INFINITY"

Digits == {"0", "1", "2", "3", "4", "5", "6", "7", "8", "9"}

LowerLetters ==
    <<"a", "b", "c", "d", "e", "f", "g", "h", "i", "j", "k", "l", "m",
      "n", "o", "p", "q", "r", "s", "t", "u", "v", "w", "x", "y", "z">>

UpperLetters ==
    <<"A", "B", "C", "D", "E", "F", "G", "H", "I", "J", "K", "L", "M",
      "N", "O", "P", "Q", "R", "S", "T", "U", "V", "W", "X", "Y", "Z">>

Range(s) == {s[i] : i \in DOMAIN s}

\* [a-zA-Z]
Letters == Range(LowerLetters) \cup Range(UpperLetters)

\* \s of the re module
Spaces == {" ", "\t", "\n", "\r"}

IsDigit(c) == c \in Digits

IsLetter(c) == c \in Letters

IsSpace(c) == c \in Spaces

\* str.lower(), one character
LowerChar(c) ==
    IF c \in Range(UpperLetters)
    THEN LowerLetters[CHOOSE i \in DOMAIN UpperLetters : UpperLetters[i] = c]
    ELSE c

\* str.lower()
Lower(s) == [i \in DOMAIN s |-> LowerChar(s[i])]

\* sub in s
Contains(s, sub) ==
    \E i \in 1..(Len(s) - Len(sub) + 1) :
        \A j \in 1..Len(sub) : s[i + j - 1] = sub[j]

\* the first index from i on whose character is not in the class cls
\* (Len(s) + 1 when the class runs to the end): a greedy [cls]*
SkipWhile(s, i, cls) ==
    CHOOSE j \in i..(Len(s) + 1) :
        /\ \A k \in i..(j - 1) : s[k] \in cls
        /\ j = Len(s) + 1 \/ s[j] \notin cls

\* sep.join(parts)
RECURSIVE Join(_, _)
Join(parts, sep) ==
    IF Len(parts) = 0 THEN <<>>
    ELSE IF Len(parts) = 1 THEN parts[1]
    ELSE parts[1] \o sep \o Join(Tail(parts), sep)

---------------------------------------------------------------------------
(* ProblemSolver.detect_problem_type *)

SYSTEM_PROMPTS == {"math", "physics", "chemistry", "word_problem", "general"}

physics_keywords ==
    << <<"v", "e", "l", "o", "c", "i", "t", "y">>,
       <<"a", "c", "c", "e", "l", "e", "r", "a", "t", "i", "o", "n">>,
       <<"f", "o", "r", "c", "e">>,
       <<"m", "a", "s", "s">>,
       <<"n", "e", "w", "t", "o", "n">>,
       <<"j", "o", "u", "l", "e">>,
       <<"w", "a", "t", "t">>,
       <<"e", "n", "e", "r", "g", "y">>,
       <<"m", "o", "m", "e", "n", "t", "u", "m">>,
       <<"f", "r", "i", "c", "t", "i", "o", "n">>,
       <<"g", "r", "a", "v", "i", "t", "y">>,
       <<"e", "l", "e", "c", "t", "r", "i", "c">>,
       <<"m", "a", "g", "n", "e", "t", "i", "c">>,
       <<"w", "a", "v", "e">>,
       <<"f", "r", "e", "q", "u", "e", "n", "c", "y">>,
       <<"m", "/", "s">>,
       <<"k", "g">>,
       <<"m", "e", "t", "e", "r", "s", " ", "p", "e", "r", " ", "s", "e", "c", "o", "n", "d">> >>

chemistry_keywords ==
    << <<"m", "o", "l", "e", "c", "u", "l", "e">>,
       <<"a", "t", "o", "m">>,
       <<"e", "l", "e", "m", "e", "n", "t">>,
       <<"c", "o", "m", "p", "o", "u", "n", "d">>,
       <<"r", "e", "a", "c", "t", "i", "o", "n">>,
       <<"m", "o", "l", "e">>,
       <<"m", "o", "l", "a", "r", "i", "t", "y">>,
       <<"c", "o", "n", "c", "e", "n", "t", "r", "a", "t", "i", "o", "n">>,
       <<"a", "c", "i", "d">>,
       <<"b", "a", "s", "e">>,
       <<"p", "h">>,
       <<"o", "x", "i", "d", "a", "t", "i", "o", "n">>,
       <<"r", "e", "d", "u", "c", "t", "i", "o", "n">>,
       <<"b", "o", "n", "d">>,
       <<"i", "o", "n">>,
       <<"h", "2", "o">>,
       <<"n", "a", "c", "l">>,
       <<"c", "o", "2">>,
       <<"c", "h", "e", "m", "i", "c", "a", "l">>,
       <<"b", "a", "l", "a", "n", "c", "e", " ", "e", "q", "u", "a", "t", "i", "o", "n">> >>

math_keywords ==
    << <<"s", "o", "l", "v", "e">>,
       <<"e", "q", "u", "a", "t", "i", "o", "n">>,
       <<"a", "l", "g", "e", "b", "r", "a">>,
       <<"c", "a", "l", "c", "u", "l", "u", "s">>,
       <<"g", "e", "o", "m", "e", "t", "r", "y">>,
       <<"i", "n", "t", "e", "g", "r", "a", "l">>,
       <<"d", "e", "r", "i", "v", "a", "t", "i", "v", "e">>,
       <<"f", "u", "n", "c", "t", "i", "o", "n">>,
       <<"g", "r", "a", "p", "h">>,
       <<"p", "o", "l", "y", "n", "o", "m", "i", "a", "l">>,
       <<"q", "u", "a", "d", "r", "a", "t", "i", "c">>,
       <<"l", "i", "n", "e", "a", "r">>,
       <<"m", "a", "t", "r", "i", "x">>,
       <<"v", "e", "c", "t", "o", "r">>,
       <<"l", "i", "m", "i", "t">>,
       <<"s", "e", "r", "i", "e", "s">>,
       <<"s", "u", "m">>,
       <<"p", "r", "o", "d", "u", "c", "t">>,
       <<"s", "i", "n">>,
       <<"c", "o", "s">>,
       <<"t", "a", "n">>,
       <<"l", "o", "g">>,
       <<"l", "n">>,
       <<"s", "q", "r", "t">>,
       <<SqrtSign>> >>

word_problem_indicators ==
    << <<"h", "o", "w", " ", "m", "a", "n", "y">>,
       <<"h", "o", "w", " ", "m", "u", "c", "h">>,
       <<"f", "i", "n", "d", " ", "t", "h", "e">>,
       <<"c", "a", "l", "c", "u", "l", "a", "t", "e", " ", "t", "h", "e">>,
       <<"w", "h", "a", "t", " ", "i", "s", " ", "t", "h", "e">>,
       <<"i", "f">>,
       <<"w", "h", "e", "n">>,
       <<"t", "o", "t", "a", "l">>,
       <<"r", "e", "m", "a", "i", "n", "i", "n", "g">> >>

ClassifierWords ==
    << <<"m", "a", "s", "s", "(", "k", "g", ")">>,
       <<"f", "r", "i", "c", "t", "i", "o", "n">>,
       <<"h", "2", "o", "-", "m", "o", "l", "e", "c", "u", "l", "e">>,
       <<"F", "o", "r", "c", "e">>,
       <<"a", "c", "i", "d">>,
       <<"s", "o", "l", "v", "e">>,
       <<"l", "i", "n", "e", "a", "r", "-", "a", "l", "g", "e", "b", "r", "a", "-", "e", "q", "u", "a", "t", "i", "o", "n">>,
       <<"t", "o", "t", "a", "l">>,
       <<"m", "i", "x">>,
       <<"c", "a", "t">> >>
\* sum(1 for kw in keywords if kw in text_lower)
Score(keywords, text_lower) ==
    Cardinality({k \in DOMAIN keywords : Contains(text_lower, keywords[k])})

physics_score(text) == Score(physics_keywords, Lower(text))

chemistry_score(text) == Score(chemistry_keywords, Lower(text))

math_score(text) == Score(math_keywords, Lower(text))

is_word_problem(text) ==
    \E k \in DOMAIN word_problem_indicators :
        Contains(Lower(text), word_problem_indicators[k])

MathOperators == {"+", "-", "*", "/", TimesSign, DivSign, "^"}

\* r'\d+\s*[\+\-\*\/×÷\^]\s*\d+'
BasicOperationAt(t, i) ==
    /\ IsDigit(t[i])
    /\ LET j == SkipWhile(t, i + 1, Spaces)
       IN  /\ j <= Len(t)
           /\ t[j] \in MathOperators
           /\ LET k == SkipWhile(t, j + 1, Spaces)
              IN  k <= Len(t) /\ IsDigit(t[k])

\* r'[a-zA-Z]\s*=\s*\d+' and r'\d+\s*=\s*\d+'
EqualsDigitAt(t, i, first) ==
    /\ t[i] \in first
    /\ LET j == SkipWhile(t, i + 1, Spaces)
       IN  /\ j <= Len(t)
           /\ t[j] = "="
           /\ LET k == SkipWhile(t, j + 1, Spaces)
              IN  k <= Len(t) /\ IsDigit(t[k])

\* r'\([^)]+\)'
ParenthesesAt(t, i) ==
    /\ t[i] = "("
    /\ i + 1 <= Len(t)
    /\ t[i + 1] /= ")"
    /\ \E j \in (i + 2)..Len(t) : t[j] = ")"

\* a plausible slip: the variable pattern written with \d+, so that an x
\* counts only with a digit after it
VariableAt_needs_digit(t, i) ==
    t[i] = "x" /\ i + 1 <= Len(t) /\ (t[i + 1] = "^" \/ IsDigit(t[i + 1]))

\* r'x\^?\d*'
VariableAt(t, i) == t[i] = "x"

_has_math_expressions(text) ==
    \E i \in DOMAIN text :
        \/ BasicOperationAt(text, i)
        \/ EqualsDigitAt(text, i, Letters)
        \/ EqualsDigitAt(text, i, Digits)
        \/ ParenthesesAt(text, i)
        \/ VariableAt(text, i)

Max3(a, b, c) ==
    IF a >= b /\ a >= c THEN a ELSE IF b >= c THEN b ELSE c

\* a plausible slip: the chemistry threshold tested before the physics one
decide_with_math_chemistry_first(p, c) ==
    IF c >= 3 THEN "chemistry" ELSE IF p >= 3 THEN "physics" ELSE "math"

\* the branch taken when the text has a math expression
decide_with_math(p, c) ==
    IF p >= 3 THEN "physics" ELSE IF c >= 3 THEN "chemistry" ELSE "math"

\* a plausible slip: the word-problem test made before the math-score test
decide_by_keywords_word_problem_first(p, c, m, wp) ==
    LET max_score == Max3(p, c, m)
    IN  IF p >= 2 /\ p = max_score THEN "physics"
        ELSE IF c >= 2 /\ c = max_score THEN "chemistry"
        ELSE IF wp THEN "word_problem"
        ELSE "math"

\* the branch taken when the text has no math expression
decide_by_keywords(p, c, m, wp) ==
    LET max_score == Max3(p, c, m)
    IN  IF p >= 2 /\ p = max_score THEN "physics"
        ELSE IF c >= 2 /\ c = max_score THEN "chemistry"
        ELSE IF m > 0 THEN "math"
        ELSE IF wp THEN "word_problem"
        ELSE "math"

\* the inference from the text: text.lower() raises AttributeError on a
\* value that is not a str
infer_problem_type(text) ==
    IF text.type /= "str" THEN Raise("AttributeError")
    ELSE
      LET t == text.val
      IN  IF _has_math_expressions(t)
          THEN Return(decide_with_math(physics_score(t), chemistry_score(t)))
          ELSE Return(decide_by_keywords(physics_score(t), chemistry_score(t),
                                         math_score(t), is_word_problem(t)))

\* a plausible slip: the early return on an explicit hint left out
detect_problem_type_hint_ignored(text, hint) == infer_problem_type(text)

\* hint in self.SYSTEM_PROMPTS hashes the hint: a list or a dict raises
\* TypeError
detect_problem_type(text, hint) ==
    IF hint.type = "str" /\ hint.val = "auto" THEN infer_problem_type(text)
    ELSE IF hint.type \in {"list", "dict"} THEN Raise("TypeError")
    ELSE IF hint.type = "str" /\ hint.val \in SYSTEM_PROMPTS THEN Return(hint.val)
    ELSE infer_problem_type(text)

---------------------------------------------------------------------------
(* The classifier's calls: every text of at most MaxWords words of        *)
(* ClassifierWords, or None, with every hint of Hints.                     *)

MaxWords == 3

\* the hints: strings, None, and a list as a JSON body can carry it
Hints ==
    {[type |-> "str", val |-> h] : h \in SYSTEM_PROMPTS \cup {"auto", "biology"}}
        \cup {[type |-> "NoneType", val |-> "None"], [type |-> "list", val |-> "[]"]}

WordLists == UNION {[1..n -> DOMAIN ClassifierWords] : n \in 0..MaxWords}

TextOf(ws) == Join([i \in DOMAIN ws |-> ClassifierWords[ws[i]]], <<" ">>)

ClassifierTexts == {PyStr(TextOf(ws)) : ws \in WordLists} \cup {PyNone}

InitClassify ==
    /\ pc = "call"
    /\ op = "detect_problem_type"
    /\ args \in [text : ClassifierTexts, hint : Hints]
    /\ ret = Pending
    /\ self = ProblemSolver__init__("None")
    /\ local = NoLocals
    /\ engine = NoEngine

Classify ==
    /\ pc = "call"
    /\ op = "detect_problem_type"
    /\ ret' = detect_problem_type(args.text, args.hint)
    /\ pc' = "done"
    /\ UNCHANGED <<op, args, self, local, engine>>

SpecClassify == InitClassify /\ [][Classify]_vars

---------------------------------------------------------------------------
(* Claims about the classifier, checked under SpecClassify *)

ClassifyDone == pc = "done" /\ op = "detect_problem_type"

\* C4: a hint that is not 'auto' and is one of the recognized domains
\* (math, physics, chemistry, word_problem, general) is returned as it is,
\* whatever the text is (None included).
C4_RecognizedHintIsReturned ==
    ( /\ ClassifyDone
      /\ args.hint.val /= "auto"
      /\ args.hint.val \in {"math", "physics", "chemistry", "word_problem", "general"} )
    => ret = Return(args.hint.val)

\* the hint physics returned for a text that inference calls chemistry
C4_Witness ==
    /\ ClassifyDone
    /\ args.hint.val = "physics"
    /\ args.text.type = "str"
    /\ physics_score(args.text.val) = 0
    /\ chemistry_score(args.text.val) >= 3
    /\ ret = Return("physics")

\* C5: under hint 'auto', for a text with a math expression: physics if the
\* physics count is >= 3, else chemistry if the chemistry count is >= 3,
\* else math; never word_problem.
C5_MathExpressionBranch ==
    ( /\ ClassifyDone
      /\ args.hint.val = "auto"
      /\ args.text.type = "str"
      /\ _has_math_expressions(args.text.val) )
    => /\ ret.kind = "return"
       /\ ret.value /= "word_problem"
       /\ ret.value = IF physics_score(args.text.val) >= 3 THEN "physics"
                      ELSE IF chemistry_score(args.text.val) >= 3 THEN "chemistry"
                      ELSE "math"

\* physics wins with a count of 3 although the chemistry count is larger
C5_Witness ==
    /\ ClassifyDone
    /\ args.hint.val = "auto"
    /\ args.text.type = "str"
    /\ _has_math_expressions(args.text.val)
    /\ physics_score(args.text.val) >= 3
    /\ chemistry_score(args.text.val) > physics_score(args.text.val)
    /\ ret = Return("physics")

\* C6: under hint 'auto', for a text with no math expression, with
\* m = max(physics, chemistry, math): physics if physics >= 2 and physics = m;
\* else chemistry if chemistry >= 2 and chemistry = m; else math if math > 0;
\* else word_problem if a word-problem phrase is present; else math.
C6_KeywordBranch ==
    ( /\ ClassifyDone
      /\ args.hint.val = "auto"
      /\ args.text.type = "str"
      /\ ~_has_math_expressions(args.text.val) )
    => LET p == physics_score(args.text.val)
           c == chemistry_score(args.text.val)
           m == math_score(args.text.val)
           top == IF p >= c /\ p >= m THEN p ELSE IF c >= m THEN c ELSE m
       IN  /\ ret.kind = "return"
           /\ ret.value = IF p >= 2 /\ p = top THEN "physics"
                          ELSE IF c >= 2 /\ c = top THEN "chemistry"
                          ELSE IF m > 0 THEN "math"
                          ELSE IF is_word_problem(args.text.val) THEN "word_problem"
                          ELSE "math"
           /\ (p = c /\ p >= 2 /\ p = top) => ret.value = "physics"
           /\ ret.value = "word_problem" => m = 0

\* a word-problem phrase and a math keyword together: math, not word_problem
C6_Witness ==
    /\ ClassifyDone
    /\ args.hint.val = "auto"
    /\ args.text.type = "str"
    /\ ~_has_math_expressions(args.text.val)
    /\ is_word_problem(args.text.val)
    /\ math_score(args.text.val) > 0
    /\ physics_score(args.text.val) < 2
    /\ chemistry_score(args.text.val) < 2
    /\ ret = Return("math")

\* the hint is the str 'auto' or is not one of the recognized domains
UnrecognizedHint ==
    ~(args.hint.type = "str" /\ args.hint.val \in SYSTEM_PROMPTS \ {"auto"})

InferredDomains == {"math", "physics", "chemistry", "word_problem"}

\* C26 (as claimed): with the hint 'auto' or any value that is not a
\* recognized domain, detect_problem_type returns what it returns for
\* 'auto' on that text, and that value is one of math, physics, chemistry
\* and word_problem; 'general' is returned only for the hint 'general'.
C26_UnrecognizedHintIsIgnored ==
    /\ (ClassifyDone /\ UnrecognizedHint) =>
          /\ ret = detect_problem_type(args.text, [type |-> "str", val |-> "auto"])
          /\ ret.kind = "return"
          /\ ret.value \in InferredDomains
    /\ (ClassifyDone /\ ret = Return("general")) =>
          args.hint = [type |-> "str", val |-> "general"]

\* what holds of C26: for a text that is a str and a hint that can be
\* hashed, the hint is ignored unless it is a recognized domain, the value
\* inferred is never 'general', and 'general' needs the hint 'general'
HashableHintIsIgnored ==
    /\ ( /\ ClassifyDone
         /\ UnrecognizedHint
         /\ args.text.type = "str"
         /\ args.hint.type \notin {"list", "dict"} ) =>
          /\ ret = detect_problem_type(args.text, [type |-> "str", val |-> "auto"])
          /\ ret.kind = "return"
          /\ ret.value \in InferredDomains
    /\ (ClassifyDone /\ ret = Return("general")) =>
          args.hint = [type |-> "str", val |-> "general"]

\* a list given as hint with a text that is classified under 'auto'
UnhashableHintRaises ==
    /\ ClassifyDone
    /\ args.hint.type = "list"
    /\ args.text.type = "str"
    /\ ret = Raise("TypeError")
    /\ detect_problem_type(args.text, [type |-> "str", val |-> "auto"]).kind = "return"

\* the text has a '(', then one or more characters other than ')', then ')'
HasParenthesisedGroup(t) ==
    \E i \in DOMAIN t : \E j \in DOMAIN t :
        /\ j > i + 1
        /\ t[i] = "("
        /\ t[j] = ")"
        /\ \A k \in (i + 1)..(j - 1) : t[k] /= ")"

HasLetterX(t) == \E i \in DOMAIN t : t[i] = "x"

\* C27: a text with a lowercase 'x' anywhere, or with a non-empty
\* parenthesised group, has a math expression; under hint 'auto' it is
\* never classified word_problem, it is classified physics or chemistry
\* only with at least 3 hits of that domain's keywords, and math otherwise.
C27_LetterXOrGroupIsMath ==
    ( /\ ClassifyDone
      /\ args.hint = [type |-> "str", val |-> "auto"]
      /\ args.text.type = "str"
      /\ (HasLetterX(args.text.val) \/ HasParenthesisedGroup(args.text.val)) )
    => /\ _has_math_expressions(args.text.val)
       /\ ret.kind = "return"
       /\ ret.value \in {"physics", "chemistry", "math"}
       /\ ret.value = "physics" => physics_score(args.text.val) >= 3
       /\ ret.value = "chemistry" => chemistry_score(args.text.val) >= 3
       /\ (physics_score(args.text.val) < 3 /\ chemistry_score(args.text.val) < 3)
              => ret.value = "math"

\* a text whose only math expression is the x of an ordinary word, with a
\* word-problem indicator and no math keyword, classified math
C27_Witness ==
    /\ ClassifyDone
    /\ args.hint = [type |-> "str", val |-> "auto"]
    /\ args.text.type = "str"
    /\ HasLetterX(args.text.val)
    /\ ~HasParenthesisedGroup(args.text.val)
    /\ is_word_problem(args.text.val)
    /\ math_score(args.text.val) = 0
    /\ ret = Return("math")

\* a text with a parenthesised group and three physics keywords
GroupWithPhysics ==
    /\ ClassifyDone
    /\ args.hint = [type |-> "str", val |-> "auto"]
    /\ args.text.type = "str"
    /\ HasParenthesisedGroup(args.text.val)
    /\ ~HasLetterX(args.text.val)
    /\ ret = Return("physics")

\* C7 (as claimed): for every text value, a str or not, and every hint,
\* detect_problem_type returns a domain and never raises.
C7_ClassifierNeverRaises ==
    ClassifyDone =>
        /\ ret.kind = "return"
        /\ ret.value \in {"math", "physics", "chemistry", "word_problem", "general"}

---------------------------------------------------------------------------
(* Exact arithmetic: the numbers and expressions of the symbolic engine.   *)
(* A rational is <<n, d>> in lowest terms with d > 0.  An Expression is    *)
(* held in canonical form, as the engine holds it after automatic          *)
(* evaluation: a polynomial in x with rational coefficients, c[i] the      *)
(* coefficient of x^(i-1), no trailing zero; <<>> is 0.                    *)

Abs(n) == IF n < 0 THEN -n ELSE n

RECURSIVE Gcd(_, _)
Gcd(a, b) == IF b = 0 THEN a ELSE Gcd(b, a % b)

Rat(n, d) ==
    LET g == Gcd(Abs(n), Abs(d))
        sgn == IF d < 0 THEN -1 ELSE 1
    IN  <<sgn * (n \div g), sgn * (d \div g)>>

RZero == <<0, 1>>

RAdd(a, b) == Rat(a[1] * b[2] + b[1] * a[2], a[2] * b[2])

RMul(a, b) == Rat(a[1] * b[1], a[2] * b[2])

RNeg(a) == <<-a[1], a[2]>>

\* 1/a, a /= 0
RInv(a) == Rat(a[2], a[1])

\* a polynomial without its trailing zero coefficients
RECURSIVE Trim(_)
Trim(c) ==
    IF Len(c) = 0 THEN c
    ELSE IF c[Len(c)] = RZero THEN Trim(SubSeq(c, 1, Len(c) - 1))
    ELSE c

Coef(c, i) == IF i \in DOMAIN c THEN c[i] ELSE RZero

PAdd(p, q) ==
    LET n == IF Len(p) >= Len(q) THEN Len(p) ELSE Len(q)
    IN  Trim([i \in 1..n |-> RAdd(Coef(p, i), Coef(q, i))])

PScale(k, p) == Trim([i \in DOMAIN p |-> RMul(k, p[i])])

PNeg(p) == PScale(<<-1, 1>>, p)

\* p times x^k
PShift(p, k) ==
    IF Len(p) = 0 THEN p
    ELSE [i \in 1..(Len(p) + k) |-> IF i <= k THEN RZero ELSE p[i - k]]

RECURSIVE PMul(_, _)
PMul(p, q) ==
    IF Len(p) = 0 \/ Len(q) = 0 THEN <<>>
    ELSE PAdd(PScale(p[1], q), PShift(PMul(Tail(p), q), 1))

RECURSIVE PPow(_, _)
PPow(p, n) == IF n = 0 THEN <<<<1, 1>>>> ELSE PMul(p, PPow(p, n - 1))

Expr(c) == [kind |-> "expr", c |-> c]

\* an Integer
Num(n) == Expr(Trim(<<<<n, 1>>>>))

\* the Symbol x
SymX == Expr(<<RZero, <<1, 1>>>>)

\* zoo (ComplexInfinity): a nonzero number divided by zero
Zoo == [kind |-> "zoo", c |-> <<>>]

\* nan: 0/0, zoo - zoo
NaN == [kind |-> "nan", c |-> <<>>]

\* a parsed object that is no Expr: a tuple or a bool.  Arithmetic on it
\* raises TypeError.
NonExpr == [kind |-> "nonexpr", c |-> <<>>]

\* r + s * sqrt(q) for rationals r, q and s in {1, -1}, q not the square of
\* a rational (q < 0: a complex number): c = <<r, <<s, 1>>, q>>
Surd(r, s, q) == [kind |-> "surd", c |-> <<r, <<s, 1>>, q>>]

\* None in the place of an Expression
NoneExpr == [kind |-> "None", c |-> <<>>]

\* an exception raised by the engine
Exception(e) == [kind |-> "exception", c |-> e]

\* an expression outside the polynomials modelled here (another symbol, a
\* function, a rational function, a decimal)
Unmodelled == [kind |-> "unmodelled", c |-> <<>>]

IsConstant(v) == v.kind = "expr" /\ Len(v.c) <= 1

IsZero(v) == v.kind = "expr" /\ Len(v.c) = 0

\* the common cases of a binary operation on two values; val is the value
\* for two finite expressions
Combine(a, b, val) ==
    IF a.kind = "exception" THEN a
    ELSE IF b.kind = "exception" THEN b
    ELSE IF {a.kind, b.kind} \cap {"nonexpr", "None"} /= {} THEN Exception("TypeError")
    ELSE IF a.kind = "unmodelled" \/ b.kind = "unmodelled" THEN Unmodelled
    ELSE IF a.kind = "nan" \/ b.kind = "nan" THEN NaN
    ELSE val

VAdd(a, b) ==
    Combine(a, b,
        IF a.kind = "zoo" /\ b.kind = "zoo" THEN NaN
        ELSE IF a.kind = "zoo" \/ b.kind = "zoo" THEN Zoo
        ELSE IF a.kind = "surd" /\ IsConstant(b)
             THEN Surd(RAdd(a.c[1], Coef(b.c, 1)), a.c[2][1], a.c[3])
        ELSE IF b.kind = "surd" /\ IsConstant(a)
             THEN Surd(RAdd(b.c[1], Coef(a.c, 1)), b.c[2][1], b.c[3])
        ELSE IF a.kind = "surd" \/ b.kind = "surd" THEN Unmodelled
        ELSE Expr(PAdd(a.c, b.c)))

VNeg(a) == IF a.kind = "expr" THEN Expr(PNeg(a.c))
           ELSE IF a.kind = "surd" THEN Surd(RNeg(a.c[1]), -a.c[2][1], a.c[3])
           ELSE IF a.kind \in {"nonexpr", "None"} THEN Exception("TypeError")
           ELSE a

VSub(a, b) == VAdd(a, IF b.kind \in {"nonexpr", "None"} THEN b ELSE VNeg(b))

VMul(a, b) ==
    Combine(a, b,
        IF a.kind = "surd" \/ b.kind = "surd" THEN Unmodelled
        ELSE IF a.kind = "zoo" \/ b.kind = "zoo"
        THEN IF IsZero(a) \/ IsZero(b) THEN NaN
             ELSE IF (a.kind = "zoo" \/ IsConstant(a)) /\ (b.kind = "zoo" \/ IsConstant(b))
                  THEN Zoo
                  ELSE Unmodelled
        ELSE Expr(PMul(a.c, b.c)))

VDiv(a, b) ==
    Combine(a, b,
        IF a.kind = "surd" /\ IsConstant(b)
        THEN IF IsZero(b) THEN Zoo
             ELSE LET k == RInv(b.c[1])
                  IN  Surd(RMul(a.c[1], k),
                           IF k[1] < 0 THEN -a.c[2][1] ELSE a.c[2][1],
                           RMul(a.c[3], RMul(k, k)))
        ELSE IF a.kind = "surd" \/ b.kind = "surd" THEN Unmodelled
        ELSE IF b.kind = "zoo"
        THEN IF a.kind = "zoo" THEN NaN
             ELSE IF IsConstant(a) THEN Num(0) ELSE Unmodelled
        ELSE IF a.kind = "zoo" THEN IF IsConstant(b) THEN Zoo ELSE Unmodelled
        ELSE IF IsZero(b)
             THEN IF IsZero(a) THEN NaN
                  ELSE IF IsConstant(a) THEN Zoo ELSE Unmodelled
        ELSE IF IsConstant(b) THEN Expr(PScale(RInv(b.c[1]), a.c))
        ELSE Unmodelled)

MaxExponent == 4

\* a ** b for an integer exponent 0..MaxExponent (and -1 on a number)
VPow(a, b) ==
    Combine(a, b,
        IF {a.kind, b.kind} \cap {"zoo", "surd"} /= {} THEN Unmodelled
        ELSE IF ~IsConstant(b) THEN Unmodelled
        ELSE IF IsZero(b) THEN Num(1)
        ELSE IF b.c[1][2] = 1 /\ b.c[1][1] \in 1..MaxExponent
             THEN Expr(PPow(a.c, b.c[1][1]))
        ELSE IF b.c[1] = <<-1, 1>> /\ IsConstant(a)
             THEN IF IsZero(a) THEN Zoo ELSE Expr(<<RInv(a.c[1])>>)
        ELSE Unmodelled)

---------------------------------------------------------------------------
(* MathVerifier.parse_expression: the notation clean-up of lines 45-63     *)
(* and parse_expr                                                          *)

\* str.strip()
Strip(s) ==
    LET a == SkipWhile(s, 1, Spaces)
        keep == {i \in DOMAIN s : s[i] \notin Spaces}
    IN  IF keep = {} THEN <<>>
        ELSE SubSeq(s, a, CHOOSE b \in keep : \A k \in keep : k <= b)

\* str.replace(old, new) for a one-character old
RECURSIVE Replace(_, _, _)
Replace(s, old, new) ==
    IF Len(s) = 0 THEN <<>>
    ELSE (IF s[1] = old THEN new ELSE <<s[1]>>) \o Replace(Tail(s), old, new)

\* the list with its first entry only
replacements_caret_only ==
    << <<"^", <<"*", "*">>>> >>

replacements ==
    << <<"^", <<"*", "*">>>>,
       <<TimesSign, <<"*">>>>,
       <<DivSign, <<"/">>>>,
       <<SqrtSign, <<"s", "q", "r", "t">>>>,
       <<Superscript2, <<"*", "*", "2">>>>,
       <<Superscript3, <<"*", "*", "3">>>>,
       <<PiSign, <<"p", "i">>>>,
       <<InfinitySign, <<"o", "o">>>> >>

\* for old, new in replacements[k..]: expr_str = expr_str.replace(old, new)
RECURSIVE ApplyReplacements(_, _)
ApplyReplacements(s, k) ==
    IF k > Len(replacements) THEN s
    ELSE ApplyReplacements(Replace(s, replacements[k][1], replacements[k][2]), k + 1)

\* re.sub(r'(\d)([a-zA-Z])', r'\1*\2', s)
RECURSIVE ImplicitTimes(_)
ImplicitTimes(s) ==
    IF Len(s) = 0 THEN <<>>
    ELSE IF Len(s) >= 2 /\ s[1] \in Digits /\ s[2] \in Letters
         THEN <<s[1], "*", s[2]>> \o ImplicitTimes(SubSeq(s, 3, Len(s)))
    ELSE <<s[1]>> \o ImplicitTimes(Tail(s))

\* the clean-up with the digit-letter rule applied before the replacements
Normalize_times_first(s) == ApplyReplacements(ImplicitTimes(Strip(s)), 1)

\* lines 45-63: the text handed to parse_expr
Normalize(s) == ImplicitTimes(ApplyReplacements(Strip(s), 1))

DigitSeq == <<"0", "1", "2", "3", "4", "5", "6", "7", "8", "9">>

DigitVal(ch) == (CHOOSE i \in DOMAIN DigitSeq : DigitSeq[i] = ch) - 1

\* int(digits)
RECURSIVE IntOf(_)
IntOf(ds) ==
    IF Len(ds) = 0 THEN 0
    ELSE 10 * IntOf(SubSeq(ds, 1, Len(ds) - 1)) + DigitVal(ds[Len(ds)])

Token(t, v) == [t |-> t, v |-> v]

NameChars == Letters \cup Digits \cup {"_"}

OpChars == {"+", "-", "*", "/", "(", ")", ",", "="}

\* the tokens of s from index i on: integers, names and operators; a
\* character outside this grammar (a decimal point among them) gives an
\* "unmodelled" token
RECURSIVE Tokenize(_, _)
Tokenize(s, i) ==
    IF i > Len(s) THEN <<>>
    ELSE IF s[i] \in Spaces THEN Tokenize(s, i + 1)
    ELSE IF s[i] \in Digits
         THEN LET j == SkipWhile(s, i, Digits)
              IN  IF j <= Len(s) /\ s[j] = "."
                  THEN <<Token("unmodelled", ".")>>
                  ELSE <<Token("num", IntOf(SubSeq(s, i, j - 1)))>> \o Tokenize(s, j)
    ELSE IF s[i] \in Letters \cup {"_"}
         THEN LET j == SkipWhile(s, i, NameChars)
              IN  <<Token("name", SubSeq(s, i, j - 1))>> \o Tokenize(s, j)
    ELSE IF i < Len(s) /\ s[i] = "*" /\ s[i + 1] = "*"
         THEN <<Token("op", "**")>> \o Tokenize(s, i + 2)
    ELSE IF i < Len(s) /\ s[i] = "=" /\ s[i + 1] = "="
         THEN <<Token("op", "==")>> \o Tokenize(s, i + 2)
    ELSE IF s[i] \in OpChars
         THEN <<Token("op", s[i])>> \o Tokenize(s, i + 1)
    ELSE <<Token("unmodelled", s[i])>>

IsOp(tok, ops) == tok.t = "op" /\ tok.v \in ops

\* a token an operand can end with, and one it can start with
EndsOperand(tok) == tok.t \in {"num", "name"} \/ IsOp(tok, {")"})

StartsOperand(tok) == tok.t \in {"num", "name"} \/ IsOp(tok, {"("})

\* implicit_multiplication_application: a '*' between two operands that
\* stand side by side
RECURSIVE ImplicitMultiplication(_)
ImplicitMultiplication(toks) ==
    IF Len(toks) <= 1 THEN toks
    ELSE IF EndsOperand(toks[1]) /\ StartsOperand(toks[2])
         THEN <<toks[1], Token("op", "*")>> \o ImplicitMultiplication(Tail(toks))
    ELSE <<toks[1]>> \o ImplicitMultiplication(Tail(toks))

\* the nesting depth of the parentheses before token i
Depth(toks, i) ==
    Cardinality({k \in 1..(i - 1) : IsOp(toks[k], {"("})})
      - Cardinality({k \in 1..(i - 1) : IsOp(toks[k], {")"})})

Balanced(toks) ==
    /\ \A i \in 1..(Len(toks) + 1) : Depth(toks, i) >= 0
    /\ Depth(toks, Len(toks) + 1) = 0

\* the positions of the operators ops outside every parenthesis
TopLevel(toks, ops) ==
    {i \in DOMAIN toks : IsOp(toks[i], ops) /\ Depth(toks, i) = 0}

SetMax(S) == CHOOSE m \in S : \A k \in S : k <= m

SetMin(S) == CHOOSE m \in S : \A k \in S : m <= k

Before(toks, i) == SubSeq(toks, 1, i - 1)

After(toks, i) == SubSeq(toks, i + 1, Len(toks))

\* the value Python's eval gives the token list, by operator precedence:
\* tuple, ==, binary + -, * /, unary + -, **, parentheses, atoms
RECURSIVE Eval(_)
Eval(toks) ==
    LET commas == TopLevel(toks, {","})
        compares == TopLevel(toks, {"=="})
        sums == {i \in TopLevel(toks, {"+", "-"}) : i > 1 /\ EndsOperand(toks[i - 1])}
        products == TopLevel(toks, {"*", "/"})
        powers == TopLevel(toks, {"**"})
    IN  IF Len(toks) = 0 THEN Exception("SyntaxError")
        ELSE IF \E i \in DOMAIN toks : toks[i].t = "unmodelled" THEN Unmodelled
        ELSE IF \E i \in DOMAIN toks : IsOp(toks[i], {"="}) THEN Exception("SyntaxError")
        ELSE IF ~Balanced(toks) THEN Exception("SyntaxError")
        ELSE IF commas /= {} THEN
            LET i == SetMax(commas)
                l == Eval(Before(toks, i))
                r == IF i = Len(toks) THEN NonExpr ELSE Eval(After(toks, i))
            IN  IF l.kind = "exception" THEN l
                ELSE IF r.kind = "exception" THEN r
                ELSE IF l.kind = "unmodelled" \/ r.kind = "unmodelled" THEN Unmodelled
                ELSE NonExpr
        ELSE IF compares /= {} THEN
            LET i == SetMax(compares)
                l == Eval(Before(toks, i))
                r == Eval(After(toks, i))
            IN  IF l.kind = "exception" THEN l
                ELSE IF r.kind = "exception" THEN r
                ELSE IF l.kind = "unmodelled" \/ r.kind = "unmodelled" THEN Unmodelled
                ELSE NonExpr
        ELSE IF sums /= {} THEN
            LET i == SetMax(sums)
            IN  IF toks[i].v = "+"
                THEN VAdd(Eval(Before(toks, i)), Eval(After(toks, i)))
                ELSE VSub(Eval(Before(toks, i)), Eval(After(toks, i)))
        ELSE IF products /= {} THEN
            LET i == SetMax(products)
            IN  IF toks[i].v = "*"
                THEN VMul(Eval(Before(toks, i)), Eval(After(toks, i)))
                ELSE VDiv(Eval(Before(toks, i)), Eval(After(toks, i)))
        ELSE IF IsOp(toks[1], {"-"}) THEN VNeg(Eval(Tail(toks)))
        ELSE IF IsOp(toks[1], {"+"}) THEN VAdd(Num(0), Eval(Tail(toks)))
        ELSE IF powers /= {} THEN
            LET i == SetMin(powers)
            IN  VPow(Eval(Before(toks, i)), Eval(After(toks, i)))
        ELSE IF IsOp(toks[1], {"("}) /\ IsOp(toks[Len(toks)], {")"}) THEN
            IF Len(toks) = 2 THEN NonExpr
            ELSE Eval(SubSeq(toks, 2, Len(toks) - 1))
        ELSE IF Len(toks) = 1 /\ toks[1].t = "num" THEN Num(toks[1].v)
        ELSE IF Len(toks) = 1 /\ toks[1].t = "name" THEN
            IF toks[1].v = <<"x">> THEN SymX
            ELSE IF toks[1].v = <<"N", "o", "n", "e">> THEN NoneExpr
            ELSE Unmodelled
        ELSE Exception("SyntaxError")

\* parse_expr(expr_str, transformations=self.transformations)
parse_expr(s) == Eval(ImplicitMultiplication(Tokenize(s, 1)))

\* parse_expression without the except clause of lines 67-68
parse_expression_uncaught(expr_str) ==
    IF expr_str.type /= "str" \/ Len(expr_str.val) = 0 THEN NoneExpr
    ELSE parse_expr(Normalize(expr_str.val))

\* the guard of line 40 and the try/except of lines 43-68: None for a value
\* that is not a non-empty str and for any exception of the parser
parse_expression(expr_str) ==
    IF expr_str.type /= "str" \/ Len(expr_str.val) = 0 THEN NoneExpr
    ELSE LET v == parse_expr(Normalize(expr_str.val))
         IN  IF v.kind = "exception" THEN NoneExpr ELSE v


---------------------------------------------------------------------------
(* str() of the engine's values *)

\* str(n) for n >= 0
RECURSIVE NatStr(_)
NatStr(n) ==
    IF n < 10 THEN <<DigitSeq[n + 1]>>
    ELSE NatStr(n \div 10) \o <<DigitSeq[(n % 10) + 1]>>

\* str() of a rational >= 0
RatStr(r) == IF r[2] = 1 THEN NatStr(r[1]) ELSE NatStr(r[1]) \o <<"/">> \o NatStr(r[2])

RAbs(r) == <<Abs(r[1]), r[2]>>

\* x, x**k
PowerStr(k) == IF k = 1 THEN <<"x">> ELSE <<"x", "*", "*">> \o NatStr(k)

\* the term |r| * x^k without its sign: 6, 5*x, x**2, x/2, 3*x/2
TermStr(r, k) ==
    LET a == RAbs(r)
    IN  IF k = 0 THEN RatStr(a)
        ELSE (IF a[1] = 1 THEN <<>> ELSE NatStr(a[1]) \o <<"*">>)
               \o PowerStr(k)
               \o (IF a[2] = 1 THEN <<>> ELSE <<"/">> \o NatStr(a[2]))

\* the terms of c of degree below n, highest first, each with its sign
RECURSIVE TermsStr(_, _, _)
TermsStr(c, n, first) ==
    IF n = 0 THEN <<>>
    ELSE IF c[n] = RZero THEN TermsStr(c, n - 1, first)
    ELSE (IF first THEN (IF c[n][1] < 0 THEN <<"-">> ELSE <<>>)
          ELSE (IF c[n][1] < 0 THEN <<" ", "-", " ">> ELSE <<" ", "+", " ">>))
           \o TermStr(c[n], n - 1) \o TermsStr(c, n - 1, FALSE)

\* str(v): exact for numbers and polynomials; r + s*sqrt(q) is written with
\* its radical as it stands
Str(v) ==
    IF v.kind = "expr" THEN (IF Len(v.c) = 0 THEN <<"0">> ELSE TermsStr(v.c, Len(v.c), TRUE))
    ELSE IF v.kind = "zoo" THEN <<"z", "o", "o">>
    ELSE IF v.kind = "nan" THEN <<"n", "a", "n">>
    ELSE IF v.kind = "surd"
         THEN LET radical == <<"s", "q", "r", "t", "(">>
                               \o (IF v.c[3][1] < 0 THEN <<"-">> ELSE <<>>)
                               \o RatStr(RAbs(v.c[3])) \o <<")">>
              IN  IF v.c[1] = RZero
                  THEN (IF v.c[2][1] < 0 THEN <<"-">> ELSE <<>>) \o radical
                  ELSE (IF v.c[1][1] < 0 THEN <<"-">> ELSE <<>>) \o RatStr(RAbs(v.c[1]))
                         \o (IF v.c[2][1] < 0 THEN <<" ", "-", " ">> ELSE <<" ", "+", " ">>)
                         \o radical
    ELSE <<v.kind>>

\* str(e) of a caught exception: named by the exception, its characters
\* are not modelled
ExceptionStr(e) == PyStr(<<e>>)

\* str(list of values)
RECURSIVE ListStr(_)
ListStr(vs) ==
    IF Len(vs) = 0 THEN <<>>
    ELSE IF Len(vs) = 1 THEN Str(vs[1])
    ELSE Str(vs[1]) \o <<",", " ">> \o ListStr(Tail(vs))

---------------------------------------------------------------------------
(* The engine's simplify, sqrt, diff, integrate and solve on the values    *)

\* simplify(v): the values are kept in canonical form (reduced fractions,
\* collected coefficients), which is what simplify returns for them
simplify(v) == v

\* the integer square root of n >= 0 when n is a perfect square, else -1
ISqrt(n) ==
    IF \E k \in 0..n : k * k = n THEN CHOOSE k \in 0..n : k * k = n ELSE -1

\* sqrt(v) for a number
Sqrt(v) ==
    IF v.kind = "exception" THEN v
    ELSE IF v.kind \in {"nonexpr", "None"} THEN Exception("TypeError")
    ELSE IF ~IsConstant(v) THEN Unmodelled
    ELSE LET r == Coef(v.c, 1)
         IN  IF r[1] >= 0 /\ ISqrt(r[1]) >= 0 /\ ISqrt(r[2]) >= 0
             THEN Expr(Trim(<<Rat(ISqrt(r[1]), ISqrt(r[2]))>>))
             ELSE Surd(RZero, 1, r)

\* the derivative of a polynomial in x
PDiff(c) ==
    IF Len(c) <= 1 THEN <<>>
    ELSE [k \in 1..(Len(c) - 1) |-> RMul(<<k, 1>>, c[k + 1])]

\* the antiderivative of a polynomial in x, without a constant
PInt(c) ==
    IF Len(c) = 0 THEN <<>>
    ELSE [k \in 1..(Len(c) + 1) |-> IF k = 1 THEN RZero ELSE RMul(<<1, k - 1>>, c[k - 1])]

\* symbols(variable)
symbols(variable) ==
    IF variable.type /= "str" THEN Exception("TypeError")
    ELSE [kind |-> "symbol", c |-> variable.val]

\* diff(f, var): a polynomial in x is constant in every other symbol
Diff(f, var) ==
    IF f.kind = "exception" THEN f
    ELSE IF var.kind = "exception" THEN var
    ELSE IF f.kind /= "expr" THEN Unmodelled
    ELSE IF var.c = <<"x">> THEN Expr(PDiff(f.c))
    ELSE Num(0)

\* integrate(f, var) for a polynomial in x and var = x
Integrate(f, var) ==
    IF f.kind = "exception" THEN f
    ELSE IF var.kind = "exception" THEN var
    ELSE IF f.kind /= "expr" \/ var.c /= <<"x">> THEN Unmodelled
    ELSE Expr(PInt(f.c))

List(vs) == [kind |-> "list", c |-> vs]

\* the two roots of a quadratic with leading coefficient a, in increasing
\* order; one root when the discriminant is zero
ordered_roots(a, double, lo, hi) ==
    IF double THEN List(<<lo>>)
    ELSE IF a.c[1][1] < 0 THEN List(<<hi, lo>>)
    ELSE List(<<lo, hi>>)

\* the roots of a*x^2 + b*x + c with discriminant disc
quadratic_roots(a, b, disc) ==
    ordered_roots(a, IsZero(disc),
                  VDiv(VSub(VNeg(b), Sqrt(disc)), VMul(Num(2), a)),
                  VDiv(VAdd(VNeg(b), Sqrt(disc)), VMul(Num(2), a)))

\* the roots of the polynomial d of degree 1 or 2
polynomial_roots(d) ==
    IF Len(d) = 2
    THEN List(<<Expr(Trim(<<RMul(RNeg(d[1]), RInv(d[2]))>>))>>)
    ELSE quadratic_roots(Expr(<<d[3]>>), Expr(Trim(<<d[2]>>)),
                         VSub(VMul(Expr(Trim(<<d[2]>>)), Expr(Trim(<<d[2]>>))),
                              VMul(VMul(Num(4), Expr(<<d[3]>>)), Expr(Trim(<<d[1]>>)))))

\* solve(Eq(left, right), var) for polynomial sides whose difference has
\* degree 1 or 2 in x; a difference without x makes Eq a truth value, which
\* is not modelled.  Roots are listed in increasing order.
Solve(left, right, var) ==
    IF left.kind = "exception" THEN left
    ELSE IF right.kind = "exception" THEN right
    ELSE IF var.kind = "exception" THEN var
    ELSE IF left.kind /= "expr" \/ right.kind /= "expr" THEN Unmodelled
    ELSE IF Len(PAdd(left.c, PNeg(right.c))) \notin {2, 3} THEN Unmodelled
    ELSE IF var.c /= <<"x">> THEN List(<<>>)
    ELSE polynomial_roots(PAdd(left.c, PNeg(right.c)))

IsException(r) == "kind" \in DOMAIN r /\ r.kind = "exception"

---------------------------------------------------------------------------
(* MathVerifier: the verification operations.  A result dict is a record   *)
(* with exactly the keys the code puts in it.                              *)

\* str(v) of an argument
str(v) == IF v.type = "str" THEN v ELSE PyStr(<<"N", "o", "n", "e">>)

\* a failure dict that also carries a verdict
Failure_with_is_correct(msg) == [verified |-> FALSE, is_correct |-> FALSE, error |-> msg]

\* {'verified': False, 'error': msg}
Failure(msg) == [verified |-> FALSE, error |-> msg]

\* a method without the except clause: the exception leaves it
no_except(r) == r

\* except Exception as e: return {'verified': False, 'error': str(e)}
except_Exception(r) == IF IsException(r) THEN Failure(ExceptionStr(r.c)) ELSE r

\* the message with its two values exchanged
got_expected(result, claimed_result) ==
    PyStr(<<"E", "x", "p", "e", "c", "t", "e", "d", " ">> \o claimed_result.val \o <<",", " ", "g", "o", "t", " ">> \o Str(result))

\* f"Expected {result}, got {claimed_result}"
expected_got(result, claimed_result) ==
    PyStr(<<"E", "x", "p", "e", "c", "t", "e", "d", " ">> \o Str(result) \o <<",", " ", "g", "o", "t", " ">> \o claimed_result.val)

\* lines 89-96: the dict for a result and its difference from the claim
arithmetic_result(expression, claimed_result, result, difference) ==
    IF IsException(difference) THEN difference
    ELSE [verified |-> TRUE,
          expression |-> expression,
          claimed |-> str(claimed_result),
          actual |-> PyStr(Str(result)),
          is_correct |-> IsZero(difference),
          error |-> IF IsZero(difference) THEN PyNone
                    ELSE expected_got(result, claimed_result)]

\* lines 80-87, for the two parsed texts
arithmetic_compare(expression, claimed_result, expr, claimed) ==
    IF expr = NoneExpr \/ claimed = NoneExpr
    THEN Failure(PyStr(<<"C", "o", "u", "l", "d", " ", "n", "o", "t", " ", "p", "a", "r", "s", "e", " ", "e", "x", "p", "r", "e", "s", "s", "i", "o", "n">>))
    ELSE arithmetic_result(expression, claimed_result, simplify(expr),
                           simplify(VSub(simplify(expr), claimed)))

\* the body of verify_arithmetic's try block
try_verify_arithmetic(expression, claimed_result) ==
    arithmetic_compare(expression, claimed_result,
                       parse_expression(expression), parse_expression(claimed_result))

verify_arithmetic(expression, claimed_result) ==
    except_Exception(try_verify_arithmetic(expression, claimed_result))

\* the check for '=' left out
no_equals_sign_unchecked(equation_str) == FALSE

\* '=' not in equation_str
no_equals_sign(equation_str) == ~Contains(equation_str, <<"=">>)

\* equation_str.split('=', 1)
split_equals(s) ==
    IF ~Contains(s, <<"=">>) THEN <<s>>
    ELSE LET i == SetMin({k \in DOMAIN s : s[k] = "="})
         IN  <<SubSeq(s, 1, i - 1), SubSeq(s, i + 1, Len(s))>>

Bool(b) == [kind |-> "bool", c |-> b]

\* all(...) in the place of any(...)
RECURSIVE all_equivalent(_, _)
all_equivalent(solutions, claimed) ==
    IF Len(solutions) = 0 THEN Bool(TRUE)
    ELSE LET difference == simplify(VSub(Head(solutions), claimed))
         IN  IF IsException(difference) THEN difference
             ELSE IF ~IsZero(difference) THEN Bool(FALSE)
             ELSE all_equivalent(Tail(solutions), claimed)

\* any(simplify(sol - claimed) == 0 for sol in solutions), left to right
RECURSIVE any_equivalent(_, _)
any_equivalent(solutions, claimed) ==
    IF Len(solutions) = 0 THEN Bool(FALSE)
    ELSE LET difference == simplify(VSub(Head(solutions), claimed))
         IN  IF IsException(difference) THEN difference
             ELSE IF IsZero(difference) THEN Bool(TRUE)
             ELSE any_equivalent(Tail(solutions), claimed)

\* [str(s) for s in solutions]
StrList(vs) == [i \in 1..Len(vs) |-> PyStr(Str(vs[i]))]

\* lines 141-149: the dict for the solutions and the verdict
equation_result(equation_str, variable, claimed_solution, solutions, is_correct) ==
    IF IsException(is_correct) THEN is_correct
    ELSE [verified |-> TRUE,
          equation |-> equation_str,
          variable |-> variable,
          claimed_solution |-> str(claimed_solution),
          correct_solutions |-> StrList(solutions),
          is_correct |-> is_correct.c,
          error |-> IF is_correct.c THEN PyNone
                    ELSE PyStr(<<"C", "o", "r", "r", "e", "c", "t", " ", "s", "o", "l", "u", "t", "i", "o", "n", "(", "s", ")", ":", " ">> \o <<"[">> \o ListStr(solutions) \o <<"]">>)]

\* lines 130-139, for the solver's answer and the parsed claimed solution
equation_compare(equation_str, variable, claimed_solution, solutions, claimed) ==
    IF solutions.kind /= "list" THEN solutions
    ELSE IF claimed = NoneExpr THEN Failure(PyStr(<<"C", "o", "u", "l", "d", " ", "n", "o", "t", " ", "p", "a", "r", "s", "e", " ", "c", "l", "a", "i", "m", "e", "d", " ", "s", "o", "l", "u", "t", "i", "o", "n">>))
    ELSE equation_result(equation_str, variable, claimed_solution, solutions.c,
                         any_equivalent(solutions.c, claimed))

\* lines 121-133, for the two parsed sides
equation_solve(equation_str, variable, claimed_solution, left_expr, right_expr) ==
    IF left_expr = NoneExpr \/ right_expr = NoneExpr
    THEN Failure(PyStr(<<"C", "o", "u", "l", "d", " ", "n", "o", "t", " ", "p", "a", "r", "s", "e", " ", "e", "q", "u", "a", "t", "i", "o", "n">>))
    ELSE equation_compare(equation_str, variable, claimed_solution,
                          Solve(left_expr, right_expr, symbols(variable)),
                          parse_expression(str(claimed_solution)))

\* lines 117-119: left, right = the two parts
equation_sides(equation_str, variable, claimed_solution, parts) ==
    IF Len(parts) /= 2 THEN Exception("ValueError")
    ELSE equation_solve(equation_str, variable, claimed_solution,
                        parse_expression(PyStr(Strip(parts[1]))),
                        parse_expression(PyStr(Strip(parts[2]))))

\* the body of verify_equation_solution's try block
try_verify_equation_solution(equation_str, variable, claimed_solution) ==
    IF equation_str.type /= "str" THEN Exception("TypeError")
    ELSE IF no_equals_sign(equation_str.val) THEN Failure(PyStr(<<"N", "o", " ", "e", "q", "u", "a", "l", "s", " ", "s", "i", "g", "n", " ", "f", "o", "u", "n", "d">>))
    ELSE equation_sides(equation_str, variable, claimed_solution,
                        split_equals(equation_str.val))

verify_equation_solution(equation_str, variable, claimed_solution) ==
    except_Exception(try_verify_equation_solution(equation_str, variable, claimed_solution))

\* lines 182-192: the dict for the derivative and its difference from the
\* claim
derivative_result(function_str, variable, claimed_derivative, correct_derivative, difference) ==
    IF IsException(difference) THEN difference
    ELSE [verified |-> TRUE,
          function |-> function_str,
          variable |-> variable,
          claimed_derivative |-> str(claimed_derivative),
          correct_derivative |-> PyStr(Str(simplify(correct_derivative))),
          is_correct |-> IsZero(difference),
          error |-> IF IsZero(difference) THEN PyNone
                    ELSE PyStr(<<"C", "o", "r", "r", "e", "c", "t", " ", "d", "e", "r", "i", "v", "a", "t", "i", "v", "e", ":", " ">> \o Str(simplify(correct_derivative)))]

\* the derivative taken with respect to x whatever variable is named
derivative_compare_default_symbol(function_str, variable, claimed_derivative, var, f, claimed) ==
    IF IsException(var) THEN var
    ELSE IF f = NoneExpr THEN Failure(PyStr(<<"C", "o", "u", "l", "d", " ", "n", "o", "t", " ", "p", "a", "r", "s", "e", " ", "f", "u", "n", "c", "t", "i", "o", "n">>))
    ELSE IF claimed = NoneExpr THEN Failure(PyStr(<<"C", "o", "u", "l", "d", " ", "n", "o", "t", " ", "p", "a", "r", "s", "e", " ", "c", "l", "a", "i", "m", "e", "d", " ", "d", "e", "r", "i", "v", "a", "t", "i", "v", "e">>))
    ELSE derivative_result(function_str, variable, claimed_derivative,
                           Diff(f, symbols(PyStr(<<"x">>))),
                           simplify(VSub(Diff(f, symbols(PyStr(<<"x">>))), claimed)))

\* lines 169-182, for the symbol and the two parsed texts
derivative_compare(function_str, variable, claimed_derivative, var, f, claimed) ==
    IF IsException(var) THEN var
    ELSE IF f = NoneExpr THEN Failure(PyStr(<<"C", "o", "u", "l", "d", " ", "n", "o", "t", " ", "p", "a", "r", "s", "e", " ", "f", "u", "n", "c", "t", "i", "o", "n">>))
    ELSE IF claimed = NoneExpr THEN Failure(PyStr(<<"C", "o", "u", "l", "d", " ", "n", "o", "t", " ", "p", "a", "r", "s", "e", " ", "c", "l", "a", "i", "m", "e", "d", " ", "d", "e", "r", "i", "v", "a", "t", "i", "v", "e">>))
    ELSE derivative_result(function_str, variable, claimed_derivative, Diff(f, var),
                           simplify(VSub(Diff(f, var), claimed)))

\* the body of verify_derivative's try block
try_verify_derivative(function_str, variable, claimed_derivative) ==
    derivative_compare(function_str, variable, claimed_derivative, symbols(variable),
                       parse_expression(function_str), parse_expression(claimed_derivative))

verify_derivative(function_str, variable, claimed_derivative) ==
    except_Exception(try_verify_derivative(function_str, variable, claimed_derivative))

\* lines 224-237: the dict for the reference integral and the difference of
\* the claim's derivative from the function
integral_result(function_str, variable, claimed_integral, difference, correct_integral) ==
    IF IsException(difference) THEN difference
    ELSE IF IsException(correct_integral) THEN correct_integral
    ELSE [verified |-> TRUE,
          function |-> function_str,
          variable |-> variable,
          claimed_integral |-> str(claimed_integral),
          correct_integral |-> PyStr(Str(simplify(correct_integral)) \o <<" ", "+", " ", "C">>),
          is_correct |-> IsZero(difference),
          error |-> IF IsZero(difference) THEN PyNone
                    ELSE PyStr(<<"C", "o", "r", "r", "e", "c", "t", " ", "i", "n", "t", "e", "g", "r", "a", "l", ":", " ">> \o Str(simplify(correct_integral)) \o <<" ", "+", " ", "C">>)]

\* the verdict taken from the difference of the claim and the reference
\* antiderivative, instead of from the derivative of the claim
integral_compare_with_reference(function_str, variable, claimed_integral, var, f, claimed) ==
    IF IsException(var) THEN var
    ELSE IF f = NoneExpr THEN Failure(PyStr(<<"C", "o", "u", "l", "d", " ", "n", "o", "t", " ", "p", "a", "r", "s", "e", " ", "f", "u", "n", "c", "t", "i", "o", "n">>))
    ELSE IF claimed = NoneExpr THEN Failure(PyStr(<<"C", "o", "u", "l", "d", " ", "n", "o", "t", " ", "p", "a", "r", "s", "e", " ", "c", "l", "a", "i", "m", "e", "d", " ", "i", "n", "t", "e", "g", "r", "a", "l">>))
    ELSE integral_result(function_str, variable, claimed_integral,
                         simplify(VSub(claimed, Integrate(f, var))), Integrate(f, var))

\* lines 213-227, for the symbol and the two parsed texts
integral_compare(function_str, variable, claimed_integral, var, f, claimed) ==
    IF IsException(var) THEN var
    ELSE IF f = NoneExpr THEN Failure(PyStr(<<"C", "o", "u", "l", "d", " ", "n", "o", "t", " ", "p", "a", "r", "s", "e", " ", "f", "u", "n", "c", "t", "i", "o", "n">>))
    ELSE IF claimed = NoneExpr THEN Failure(PyStr(<<"C", "o", "u", "l", "d", " ", "n", "o", "t", " ", "p", "a", "r", "s", "e", " ", "c", "l", "a", "i", "m", "e", "d", " ", "i", "n", "t", "e", "g", "r", "a", "l">>))
    ELSE integral_result(function_str, variable, claimed_integral,
                         simplify(VSub(Diff(claimed, var), f)), Integrate(f, var))

\* the body of verify_integral's try block
try_verify_integral(function_str, variable, claimed_integral) ==
    integral_compare(function_str, variable, claimed_integral, symbols(variable),
                     parse_expression(function_str), parse_expression(claimed_integral))

verify_integral(function_str, variable, claimed_integral) ==
    except_Exception(try_verify_integral(function_str, variable, claimed_integral))

\* lines 330-333: results.append({...}) before the later entries
append_result(claimed, is_correct, rest) ==
    IF IsException(is_correct) THEN is_correct
    ELSE IF IsException(rest) THEN rest
    ELSE List(<<[claimed |-> claimed, is_correct |-> is_correct.c]>> \o rest.c)

\* the loop over claimed_solutions: one {'claimed', 'is_correct'} per entry,
\* or the first exception raised
RECURSIVE check_claimed(_, _)
check_claimed(claimed_solutions, correct_solutions) ==
    IF Len(claimed_solutions) = 0 THEN List(<<>>)
    ELSE append_result(Head(claimed_solutions),
                       any_equivalent(correct_solutions,
                                      parse_expression(Head(claimed_solutions))),
                       check_claimed(Tail(claimed_solutions), correct_solutions))

\* all_correct taken as "some entry is correct"
quadratic_result_any_correct(a, b, c, discriminant, correct_solutions, results) ==
    IF IsException(results) THEN results
    ELSE [verified |-> TRUE,
          a |-> str(a), b |-> str(b), c |-> str(c),
          discriminant |-> PyStr(Str(simplify(discriminant))),
          correct_solutions |-> StrList(correct_solutions),
          verification |-> results.c,
          all_correct |-> \E i \in 1..Len(results.c) : results.c[i].is_correct]

\* lines 335-344: the dict for the verdicts of the claimed entries
quadratic_result(a, b, c, discriminant, correct_solutions, results) ==
    IF IsException(results) THEN results
    ELSE [verified |-> TRUE,
          a |-> str(a), b |-> str(b), c |-> str(c),
          discriminant |-> PyStr(Str(simplify(discriminant))),
          correct_solutions |-> StrList(correct_solutions),
          verification |-> results.c,
          all_correct |-> \A i \in 1..Len(results.c) : results.c[i].is_correct]

\* lines 320-333, for the discriminant and the two roots; claimed_solutions
\* is a list [type |-> "list", val |-> <<...>>] or None
quadratic_check(a, b, c, claimed_solutions, discriminant, x1, x2) ==
    IF IsException(discriminant) THEN discriminant
    ELSE IF IsException(x1) THEN x1
    ELSE IF IsException(x2) THEN x2
    ELSE quadratic_result(a, b, c, discriminant, <<simplify(x1), simplify(x2)>>,
                          IF claimed_solutions.type /= "list" THEN Exception("TypeError")
                          ELSE check_claimed(claimed_solutions.val,
                                             <<simplify(x1), simplify(x2)>>))

\* lines 317-318, for the parsed a, b and the discriminant
quadratic_solutions(a, b, c, claimed_solutions, a_val, b_val, discriminant) ==
    quadratic_check(a, b, c, claimed_solutions, discriminant,
                    VDiv(VAdd(VNeg(b_val), Sqrt(discriminant)), VMul(Num(2), a_val)),
                    VDiv(VSub(VNeg(b_val), Sqrt(discriminant)), VMul(Num(2), a_val)))

\* line 314, for the parsed coefficients
quadratic_discriminant(a, b, c, claimed_solutions, a_val, b_val, c_val) ==
    quadratic_solutions(a, b, c, claimed_solutions, a_val, b_val,
                        VSub(VPow(b_val, Num(2)), VMul(VMul(Num(4), a_val), c_val)))

\* the body of check_quadratic_formula's try block
try_check_quadratic_formula(a, b, c, claimed_solutions) ==
    quadratic_discriminant(a, b, c, claimed_solutions,
                           parse_expression(a), parse_expression(b), parse_expression(c))

check_quadratic_formula(a, b, c, claimed_solutions) ==
    except_Exception(try_check_quadratic_formula(a, b, c, claimed_solutions))

---------------------------------------------------------------------------
(* verify_solution_steps: the three patterns, matched at a position i of   *)
(* the text s.  A match is [ok, end, groups], end being the first position *)
(* after it.  Each pattern has one way to match at a position: a shorter   *)
(* run of a greedy class is followed by a character of the same class,     *)
(* which no next element of the pattern accepts.                           *)

NoMatch == [ok |-> FALSE, end |-> 0, groups |-> <<>>]

Match(e, groups) == [ok |-> TRUE, end |-> e, groups |-> groups]

At(s, i) == IF i \in DOMAIN s THEN s[i] ELSE "END"

\* \d+(?:\.\d+)? from i: the position after it, 0 when there is no digit at i
NumberEnd(s, i) ==
    IF At(s, i) \notin Digits THEN 0
    ELSE LET j == SkipWhile(s, i, Digits)
         IN  IF At(s, j) = "." /\ At(s, j + 1) \in Digits
             THEN SkipWhile(s, j + 1, Digits)
             ELSE j

\* [+\-*/(multiplication sign)(division sign)]
ArithmeticOperators == {"+", "-", "*", "/", TimesSign, DivSign}

\* [\d\.\-]
ResultChars == Digits \cup {".", "-"}

\* (\d+(?:\.\d+)?)\s*([+\-*/..])\s*(\d+(?:\.\d+)?)\s*=\s*(\d+(?:\.\d+)?)
arithmetic_pattern(s, i) ==
    LET a_end == NumberEnd(s, i)
        o == SkipWhile(s, a_end, Spaces)
        b == SkipWhile(s, o + 1, Spaces)
        b_end == NumberEnd(s, b)
        e == SkipWhile(s, b_end, Spaces)
        r == SkipWhile(s, e + 1, Spaces)
        r_end == NumberEnd(s, r)
    IN  IF a_end = 0 THEN NoMatch
        ELSE IF At(s, o) \notin ArithmeticOperators THEN NoMatch
        ELSE IF b_end = 0 THEN NoMatch
        ELSE IF At(s, e) /= "=" THEN NoMatch
        ELSE IF r_end = 0 THEN NoMatch
        ELSE Match(r_end, <<SubSeq(s, i, a_end - 1), <<s[o]>>,
                            SubSeq(s, b, b_end - 1), SubSeq(s, r, r_end - 1)>>)

\* ([a-zA-Z])\s*=\s*([\d\.\-]+)
assignment_pattern(s, i) ==
    LET e == SkipWhile(s, i + 1, Spaces)
        r == SkipWhile(s, e + 1, Spaces)
        r_end == SkipWhile(s, r, ResultChars)
    IN  IF At(s, i) \notin Letters THEN NoMatch
        ELSE IF At(s, e) /= "=" THEN NoMatch
        ELSE IF r_end = r THEN NoMatch
        ELSE Match(r_end, <<<<s[i]>>, SubSeq(s, r, r_end - 1)>>)

\* ([a-zA-Z])\s*=\s*([^=]+)\s*=\s*([\d\.\-]+): group 2 runs from the first
\* character after the spaces up to the next '='; when only spaces lie
\* between the two '=', the \s* gives the last of them back to group 2
equation_result_pattern(s, i) ==
    LET e == SkipWhile(s, i + 1, Spaces)
        g == SkipWhile(s, e + 1, Spaces)
        e2 == SkipWhile(s, e + 1, Range(s) \ {"="})
        g2 == IF g = e2 THEN e2 - 1 ELSE g
        r == SkipWhile(s, e2 + 1, Spaces)
        r_end == SkipWhile(s, r, ResultChars)
    IN  IF At(s, i) \notin Letters THEN NoMatch
        ELSE IF At(s, e) /= "=" THEN NoMatch
        ELSE IF e2 = e + 1 THEN NoMatch
        ELSE IF At(s, e2) /= "=" THEN NoMatch
        ELSE IF r_end = r THEN NoMatch
        ELSE Match(r_end, <<<<s[i]>>, SubSeq(s, g2, e2 - 1), SubSeq(s, r, r_end - 1)>>)

patterns == <<"arithmetic", "assignment", "equation_result">>

MatchAt(pattern_type, s, i) ==
    IF pattern_type = "arithmetic" THEN arithmetic_pattern(s, i)
    ELSE IF pattern_type = "assignment" THEN assignment_pattern(s, i)
    ELSE equation_result_pattern(s, i)

\* re.finditer(pattern, s) from position i: the leftmost match, then the
\* matches after its end; each is [groups, match (group 0)]
RECURSIVE finditer(_, _, _)
finditer(pattern_type, s, i) ==
    IF i > Len(s) THEN <<>>
    ELSE LET m == MatchAt(pattern_type, s, i)
         IN  IF m.ok
             THEN <<[groups |-> m.groups, match |-> SubSeq(s, i, m.end - 1)]>>
                    \o finditer(pattern_type, s, m.end)
             ELSE finditer(pattern_type, s, i + 1)

\* the operator passed on as it is written
op_map_identity(o) == o

\* op_map.get(op, op)
op_map(o) == IF o = TimesSign THEN "*" ELSE IF o = DivSign THEN "/" ELSE o

\* verification['match'] = ...; verification['type'] = ...
Tag(verification, match, type) ==
    [match |-> PyStr(match), type |-> type] @@ verification

\* the body of the loop over a pattern's matches
RECURSIVE verify_matches(_, _)
verify_matches(pattern_type, matches) ==
    IF Len(matches) = 0 THEN <<>>
    ELSE LET m == Head(matches)
             g == m.groups
             rest == verify_matches(pattern_type, Tail(matches))
         IN  IF pattern_type = "arithmetic"
             THEN <<Tag(verify_arithmetic(
                            PyStr(g[1] \o <<" ", op_map(g[2][1]), " ">> \o g[3]),
                            PyStr(g[4])),
                        m.match, "arithmetic")>> \o rest
             ELSE IF pattern_type = "equation_result"
             THEN <<Tag(verify_arithmetic(PyStr(Strip(g[2])), PyStr(g[3])),
                        m.match, "equation_result")>> \o rest
             ELSE rest

\* the same loop leaving at the first pattern that has a match
RECURSIVE scan_patterns_first_family_wins(_, _)
scan_patterns_first_family_wins(ps, solution_text) ==
    IF Len(ps) = 0 THEN <<>>
    ELSE IF Len(finditer(Head(ps), solution_text, 1)) > 0
         THEN verify_matches(Head(ps), finditer(Head(ps), solution_text, 1))
         ELSE scan_patterns_first_family_wins(Tail(ps), solution_text)

\* for pattern, pattern_type in patterns: every pattern is applied to the
\* whole text, whatever the earlier ones found
RECURSIVE scan_patterns(_, _)
scan_patterns(ps, solution_text) ==
    IF Len(ps) = 0 THEN <<>>
    ELSE verify_matches(Head(ps), finditer(Head(ps), solution_text, 1))
           \o scan_patterns(Tail(ps), solution_text)

\* re.finditer raises TypeError on a text that is not a str
verify_solution_steps(problem_text, solution_text) ==
    IF solution_text.type /= "str" THEN Raise("TypeError")
    ELSE Return(scan_patterns(patterns, solution_text.val))

\* ---------------------------------------------------------------------------
\* create_verification_report
\* ---------------------------------------------------------------------------

CheckMark == "CHECK MARK"

BallotX == "BALLOT X"

Backtick == "GRAVE ACCENT"

\* v.get(key, default) for a dict kept as a record
DictGet(v, key, default) == IF key \in DOMAIN v THEN v[key] ELSE default

\* the truth value of a str or of None
Truthy(x) == x.type = "str" /\ Len(x.val) > 0

\* the number of dicts counted as verified
count_verified(verifications) ==
    Cardinality({i \in DOMAIN verifications : verifications[i].verified})

\* line 405: sum(1 for v in verifications if v.get('is_correct', False))
correct_count(verifications) ==
    Cardinality({i \in DOMAIN verifications : DictGet(verifications[i], "is_correct", FALSE)})

\* the detail lines under the condition not v.get('is_correct', False)
item_details_default_false(v) ==
    IF ~DictGet(v, "is_correct", FALSE)
    THEN (IF Truthy(DictGet(v, "error", PyNone))
          THEN <<<<" ", " ", " ", "-", " ", "E", "r", "r", "o", "r", ":", " ">> \o v.error.val>> ELSE <<>>)
         \o (IF Truthy(DictGet(v, "actual", PyNone))
             THEN <<<<" ", " ", " ", "-", " ", "E", "x", "p", "e", "c", "t", "e", "d", ":", " ">> \o v.actual.val>> ELSE <<>>)
    ELSE <<>>

\* lines 414-418: the detail lines of an item
item_details(v) ==
    IF ~DictGet(v, "is_correct", TRUE)
    THEN (IF Truthy(DictGet(v, "error", PyNone))
          THEN <<<<" ", " ", " ", "-", " ", "E", "r", "r", "o", "r", ":", " ">> \o v.error.val>> ELSE <<>>)
         \o (IF Truthy(DictGet(v, "actual", PyNone))
             THEN <<<<" ", " ", " ", "-", " ", "E", "x", "p", "e", "c", "t", "e", "d", ":", " ">> \o v.actual.val>> ELSE <<>>)
    ELSE <<>>

\* line 411: "(check mark)" if v.get('is_correct', False) else "(ballot x)"
status(v) == IF DictGet(v, "is_correct", FALSE) THEN CheckMark ELSE BallotX

\* line 412: v.get('match', v.get('expression', 'N/A'))
item_label(v) ==
    DictGet(v, "match", DictGet(v, "expression", PyStr(<<"N", "/", "A">>))).val

\* lines 410-418 for the items from the i-th on: the strings appended to
\* report
RECURSIVE report_items(_, _)
report_items(verifications, i) ==
    IF i > Len(verifications) THEN <<>>
    ELSE <<(<<"\n">> \o NatStr(i) \o <<".", " ", status(verifications[i]), " ", Backtick>>
               \o item_label(verifications[i]) \o <<Backtick>>)>>
           \o item_details(verifications[i])
           \o report_items(verifications, i + 1)

\* line 408: the header for the two counts
result_line(correct, total) ==
    <<"*", "*", "R", "e", "s", "u", "l", "t", ":", " ">> \o NatStr(correct) \o <<"/">> \o NatStr(total)
        \o <<" ", "c", "a", "l", "c", "u", "l", "a", "t", "i", "o", "n", "s", " ", "v", "e", "r", "i", "f", "i", "e", "d", " ", "c", "o", "r", "r", "e", "c", "t", "*", "*", "\n">>

create_verification_report(verifications) ==
    IF Len(verifications) = 0
    THEN PyStr(<<"N", "o", " ", "c", "a", "l", "c", "u", "l", "a", "t", "i", "o", "n", "s", " ", "d", "e", "t", "e", "c", "t", "e", "d", " ", "f", "o", "r", " ", "v", "e", "r", "i", "f", "i", "c", "a", "t", "i", "o", "n", ".">>)
    ELSE PyStr(Join(<<<<"#", "#", " ", "C", "a", "l", "c", "u", "l", "a", "t", "i", "o", "n", " ", "V", "e", "r", "i", "f", "i", "c", "a", "t", "i", "o", "n", " ", "R", "e", "p", "o", "r", "t", "\n">>,
                      result_line(correct_count(verifications), Len(verifications))>>
                    \o report_items(verifications, 1), <<"\n">>))

---------------------------------------------------------------------------
(* The calls                                                               *)

\* what the caller gets: the dict returned, or the exception that left the
\* method
Outcome(r) == IF IsException(r) THEN Raise(r.c) ELSE Return(r)

PyList(xs) == [type |-> "list", val |-> xs]

\* texts given to verify_arithmetic, as expression and as claimed result
ArithmeticTexts ==
    { PyStr(<<"2", " ", "+", " ", "3", " ", "*", " ", "4">>),
      PyStr(<<"1", "4">>),
      PyStr(<<"2", "0">>),
      PyStr(<<"2", "x", " ", "+", " ", "5">>),
      PyStr(<<"x", "^", "2">>),
      PyStr(<<"(", "x", "+", "1", ")", "(", "x", "+", "1", ")">>),
      PyStr(<<"x", "^", "2", " ", "+", " ", "2", "x", " ", "+", " ", "1">>),
      PyStr(<<"6", "/", "3">>),
      PyStr(<<"2">>),
      PyStr(<<"1", "/", "0">>),
      PyStr(<<"1", "/", "2">>),
      PyStr(<<"2", " ", "+">>),
      PyStr(<<>>),
      PyStr(<<" ">>),
      PyStr(<<"(", "1", ",", " ", "2", ")">>),
      PyStr(<<"1", " ", "=", "=", " ", "1">>),
      PyNone }

\* equation texts: one, none, two and three '='
EquationTexts ==
    { PyStr(<<"2", "x", " ", "+", " ", "5", " ", "=", " ", "1", "3">>),
      PyStr(<<"x", "^", "2", " ", "=", " ", "4">>),
      PyStr(<<"x", "^", "2", " ", "-", " ", "5", "x", " ", "+", " ", "6", " ", "=", " ", "0">>),
      PyStr(<<"x", "^", "2", " ", "=", " ", "2">>),
      PyStr(<<"x", "^", "2", " ", "+", " ", "1", " ", "=", " ", "0">>),
      PyStr(<<"x", "^", "2", " ", "=", " ", "2", "x", " ", "-", " ", "1">>),
      PyStr(<<"2", "x", " ", "+", " ", "5">>),
      PyStr(<<"1", "3">>),
      PyStr(<<>>),
      PyStr(<<"x", " ", "=", " ", "4", " ", "=", " ", "4">>),
      PyStr(<<"2", "x", " ", "=", " ", "8", " ", "=", " ", "8">>),
      PyStr(<<"x", " ", "=", " ", "2", " ", "+", " ", "2", " ", "=", " ", "4", " ", "=", " ", "4">>),
      PyStr(<<"=", " ", "4">>),
      PyStr(<<"2", "x", " ", "+", " ", "=", " ", "1", "3">>),
      PyStr(<<"x", " ", "=", " ">>),
      PyStr(<<"=">>),
      PyNone }

Variables ==
    { PyStr(<<"x">>),
      PyStr(<<"y">>),
      PyStr(<<"w">>),
      PyNone }

ClaimedSolutions ==
    { PyStr(<<"4">>),
      PyStr(<<"2">>),
      PyStr(<<"-", "2">>),
      PyStr(<<"3">>),
      PyStr(<<"1">>),
      PyStr(<<"8", "/", "2">>),
      PyStr(<<"(", "1", ",", " ", "2", ")">>),
      PyStr(<<"2", " ", "+">>),
      PyStr(<<>>),
      PyNone }

FunctionTexts ==
    { PyStr(<<"x", "^", "3">>),
      PyStr(<<"2", "x", " ", "+", " ", "5">>),
      PyStr(<<"x", "^", "2">>),
      PyStr(<<"2", "x">>),
      PyStr(<<"7">>),
      PyStr(<<"2", " ", "+">>),
      PyStr(<<>>),
      PyNone }

ClaimedDerivatives ==
    { PyStr(<<"3", "x", "^", "2">>),
      PyStr(<<"3", "*", "x", "*", "*", "2">>),
      PyStr(<<"2">>),
      PyStr(<<"2", "x">>),
      PyStr(<<"0">>),
      PyStr(<<"(", "1", ",", " ", "2", ")">>),
      PyStr(<<"2", " ", "+">>),
      PyNone }

IntegralVariables ==
    { PyStr(<<"x">>),
      PyNone }

ClaimedIntegrals ==
    { PyStr(<<"x", "^", "2">>),
      PyStr(<<"x", "^", "2", " ", "+", " ", "7">>),
      PyStr(<<"x", "^", "3", "/", "3">>),
      PyStr(<<"x", "^", "2", " ", "+", " ", "5", "x">>),
      PyStr(<<"7", "x">>),
      PyStr(<<"2">>),
      PyStr(<<"2", " ", "+">>),
      PyNone }

\* the coefficients a, b, c
Coefficients ==
    { <<PyStr(<<"1">>), PyStr(<<"-", "5">>), PyStr(<<"6">>)>>,
      <<PyStr(<<"1">>), PyStr(<<"0">>), PyStr(<<"-", "4">>)>>,
      <<PyStr(<<"1">>), PyStr(<<"0">>), PyStr(<<"1">>)>>,
      <<PyStr(<<"1">>), PyStr(<<"2">>), PyStr(<<"1">>)>>,
      <<PyStr(<<"2">>), PyStr(<<"0">>), PyStr(<<"-", "1">>)>>,
      <<PyStr(<<"-", "1">>), PyStr(<<"0">>), PyStr(<<"4">>)>>,
      <<PyStr(<<"0">>), PyStr(<<"2">>), PyStr(<<"1">>)>>,
      <<PyStr(<<"0">>), PyStr(<<"0">>), PyStr(<<"0">>)>>,
      <<PyNone, PyStr(<<"1">>), PyStr(<<"1">>)>>,
      <<PyStr(<<"1">>), PyNone, PyStr(<<"1">>)>>,
      <<PyStr(<<"1">>), PyStr(<<"1">>), PyNone>>,
      <<PyStr(<<"1">>), PyStr(<<"2", " ", "+">>), PyStr(<<"1">>)>>,
      <<PyStr(<<"(", "1", ",", " ", "2", ")">>), PyStr(<<"1">>), PyStr(<<"1">>)>>,
      <<PyStr(<<>>), PyStr(<<"1">>), PyStr(<<"1">>)>> }

ClaimedSolutionLists ==
    { PyList(<<PyStr(<<"2">>), PyStr(<<"3">>)>>),
      PyList(<<PyStr(<<"3">>), PyStr(<<"2">>)>>),
      PyList(<<PyStr(<<"2">>)>>),
      PyList(<<>>),
      PyList(<<PyStr(<<"-", "1">>)>>),
      PyList(<<PyStr(<<"-", "2">>), PyStr(<<"2">>)>>),
      PyList(<<PyStr(<<"2">>), PyNone>>),
      PyList(<<PyStr(<<"2", " ", "+">>)>>),
      PyList(<<PyStr(<<"(", "1", ",", " ", "2", ")">>)>>),
      PyList(<<PyStr(<<"2">>), PyStr(<<"5">>)>>),
      PyNone }

\* solution texts are built from these pieces
Pieces ==
    { <<"x", "=">>,
      <<"2", "+", "3">>,
      <<"=", "5">>,
      <<"=", "6">>,
      <<"2", TimesSign, "3", "=", "6">>,
      <<" ">>,
      <<"-">>,
      <<"4">> }

MaxPieces == 3

RECURSIVE Concatenations(_)
Concatenations(n) ==
    IF n = 0 THEN {<<>>}
    ELSE {p \o rest : p \in Pieces, rest \in Concatenations(n - 1)}

SolutionTexts ==
    {PyStr(s) : s \in UNION {Concatenations(n) : n \in 0..MaxPieces}} \cup {PyNone}

\* lists handed to create_verification_report: what verify_solution_steps
\* returns for the solution texts, and single results of verify_arithmetic
ReportInputs ==
    { scan_patterns(patterns, t.val) : t \in SolutionTexts \ {PyNone} }
      \cup { <<verify_arithmetic(e, c)>> :
               e \in {PyStr(<<"2", " ", "+", " ", "3", " ", "*", " ", "4">>), PyStr(<<"2", " ", "+">>), PyNone}, c \in {PyStr(<<"1", "4">>), PyStr(<<"2", "0">>)} }

Init ==
    /\ pc = "call"
    /\ ret = Pending
    /\ self = MathVerifier__init__
    /\ local = NoLocals
    /\ engine = NoEngine
    /\ \/ op = "verify_arithmetic"
          /\ args \in ArithmeticTexts \X ArithmeticTexts
       \/ op = "verify_equation_solution"
          /\ args \in EquationTexts \X Variables \X ClaimedSolutions
       \/ op = "verify_derivative"
          /\ args \in FunctionTexts \X Variables \X ClaimedDerivatives
       \/ op = "verify_integral"
          /\ args \in FunctionTexts \X IntegralVariables \X ClaimedIntegrals
       \/ op = "check_quadratic_formula"
          /\ args \in {co \o <<cl>> : co \in Coefficients, cl \in ClaimedSolutionLists}
       \/ op = "verify_solution_steps"
          /\ args \in {PyStr(<<>>)} \X SolutionTexts
       \/ op = "create_verification_report"
          /\ args \in {<<vs>> : vs \in ReportInputs}

Done == pc' = "done" /\ UNCHANGED <<op, args, self, local, engine>>

VerifyArithmetic ==
    /\ pc = "call" /\ op = "verify_arithmetic"
    /\ ret' = Outcome(verify_arithmetic(args[1], args[2]))
    /\ Done

VerifyEquationSolution ==
    /\ pc = "call" /\ op = "verify_equation_solution"
    /\ ret' = Outcome(verify_equation_solution(args[1], args[2], args[3]))
    /\ Done

VerifyDerivative ==
    /\ pc = "call" /\ op = "verify_derivative"
    /\ ret' = Outcome(verify_derivative(args[1], args[2], args[3]))
    /\ Done

VerifyIntegral ==
    /\ pc = "call" /\ op = "verify_integral"
    /\ ret' = Outcome(verify_integral(args[1], args[2], args[3]))
    /\ Done

CheckQuadraticFormula ==
    /\ pc = "call" /\ op = "check_quadratic_formula"
    /\ ret' = Outcome(check_quadratic_formula(args[1], args[2], args[3], args[4]))
    /\ Done

VerifySolutionSteps ==
    /\ pc = "call" /\ op = "verify_solution_steps"
    /\ ret' = verify_solution_steps(args[1], args[2])
    /\ Done

CreateVerificationReport ==
    /\ pc = "call" /\ op = "create_verification_report"
    /\ ret' = Return(create_verification_report(args[1]))
    /\ Done

Next ==
    \/ VerifyArithmetic
    \/ VerifyEquationSolution
    \/ VerifyDerivative
    \/ VerifyIntegral
    \/ CheckQuadraticFormula
    \/ VerifySolutionSteps
    \/ CreateVerificationReport

Spec == Init /\ [][Next]_vars

---------------------------------------------------------------------------
(* Claims about the verifier, checked under Spec *)

Called(name) == pc = "done" /\ op = name

Operations ==
    {"verify_arithmetic", "verify_equation_solution", "verify_derivative",
     "verify_integral", "check_quadratic_formula"}

Scanned == Called("verify_solution_steps") /\ ret.kind = "return"

\* the types of the results of a scan, in list order
ResultTypes == [i \in DOMAIN ret.value |-> ret.value[i].type]

\* C1 (as claimed): the first pattern family with a match wins: the list a
\* scan returns never holds results of more than one pattern kind, and a
\* text with an arithmetic match yields no equation_result results.
C1_FirstMatchingFamilyWins ==
    Scanned =>
        /\ \A i, j \in DOMAIN ret.value : ret.value[i].type = ret.value[j].type
        /\ Len(finditer("arithmetic", args[2].val, 1)) > 0
              => \A i \in DOMAIN ret.value : ret.value[i].type /= "equation_result"

\* C1 (amended): every pattern family is applied to the whole text in the
\* listed order, whatever the earlier families matched: the list holds one
\* result per arithmetic match, then one result per equation_result match,
\* and nothing for assignment matches.
C1_EveryFamilyIsApplied ==
    Scanned =>
        LET n1 == Len(finditer("arithmetic", args[2].val, 1))
            n3 == Len(finditer("equation_result", args[2].val, 1))
        IN  /\ Len(ret.value) = n1 + n3
            /\ \A i \in 1..n1 : ret.value[i].type = "arithmetic"
            /\ \A i \in (n1 + 1)..(n1 + n3) : ret.value[i].type = "equation_result"

\* a scan whose list holds an arithmetic and an equation_result result,
\* from a text that also has an assignment match
C1_Witness ==
    /\ Scanned
    /\ "arithmetic" \in Range(ResultTypes)
    /\ "equation_result" \in Range(ResultTypes)
    /\ Len(finditer("assignment", args[2].val, 1)) > 0

\* a result dict without a verdict: d.get('is_correct') is None
NoVerdict(d) == "is_correct" \notin DOMAIN d

\* C2: a result with verified = false never carries an is_correct, for the
\* five operations and for every tagged result of a scan; a result with
\* verified = true of the first four operations carries a boolean is_correct.
C2_UnverifiedHasNoVerdict ==
    /\ (pc = "done" /\ op \in Operations /\ ret.kind = "return") =>
          /\ ~ret.value.verified => NoVerdict(ret.value)
          /\ (ret.value.verified /\ op /= "check_quadratic_formula")
                => ~NoVerdict(ret.value) /\ ret.value.is_correct \in BOOLEAN
    /\ Scanned =>
          \A i \in DOMAIN ret.value :
              /\ ~ret.value[i].verified => NoVerdict(ret.value[i])
              /\ ret.value[i].verified => ret.value[i].is_correct \in BOOLEAN

\* a scan that returns, tagged, a result with verified = false next to one
\* with a verdict
C2_Witness ==
    /\ Scanned
    /\ \E i, j \in DOMAIN ret.value :
          /\ ~ret.value[i].verified
          /\ ret.value[i].type = "equation_result"
          /\ ret.value[j].verified
          /\ ret.value[j].is_correct \in BOOLEAN

\* a coefficient or a claimed entry of check_quadratic_formula that does
\* not parse
UnparsableQuadraticInput ==
    \/ \E k \in 1..3 : parse_expression(args[k]) = NoneExpr
    \/ /\ args[4].type = "list"
       /\ \E k \in DOMAIN args[4].val : parse_expression(args[4].val[k]) = NoneExpr

\* C3: each of the five operations returns a dict for every input and never
\* lets an exception out; a failure is {verified: false, error: a string};
\* check_quadratic_formula with an unparsable coefficient or claimed entry
\* returns such a failure.
C3_FaultsAreCaught ==
    (pc = "done" /\ op \in Operations) =>
        /\ ret.kind = "return"
        /\ ~ret.value.verified =>
              /\ DOMAIN ret.value = {"verified", "error"}
              /\ ret.value.error.type = "str"
        /\ (op = "check_quadratic_formula" /\ UnparsableQuadraticInput)
              => ~ret.value.verified

\* check_quadratic_formula called with a coefficient None: the TypeError of
\* the arithmetic on None is the error of the result
C3_Witness ==
    /\ Called("check_quadratic_formula")
    /\ \E k \in 1..3 : args[k] = PyNone
    /\ ret = Return(Failure(ExceptionStr("TypeError")))

\* two values that are the same number or polynomial
Equivalent(a, b) == a.kind = "expr" /\ b.kind = "expr" /\ a.c = b.c

\* what C8 says of a call whose two texts parsed to expr and claimed
ArithmeticVerdict(expr, claimed) ==
    /\ ret.value.verified
    /\ ret.value.actual = PyStr(Str(expr))
    /\ ret.value.is_correct = Equivalent(expr, claimed)
    /\ ret.value.is_correct <=> ret.value.error = PyNone
    /\ ~ret.value.is_correct <=>
          ret.value.error = PyStr(<<"E", "x", "p", "e", "c", "t", "e", "d", " ">> \o ret.value.actual.val
                                  \o <<",", " ", "g", "o", "t", " ">> \o args[2].val)

EqualsSigns(s) == Cardinality({k \in DOMAIN s : s[k] = "="})

ParsableEquation ==
    /\ args[1].type = "str"
    /\ EqualsSigns(args[1].val) = 1
    /\ parse_expression(PyStr(Strip(split_equals(args[1].val)[1]))) /= NoneExpr
    /\ parse_expression(PyStr(Strip(split_equals(args[1].val)[2]))) /= NoneExpr

\* the solutions the solver returns for the equation of the call
Solutions ==
    Solve(parse_expression(PyStr(Strip(split_equals(args[1].val)[1]))),
          parse_expression(PyStr(Strip(split_equals(args[1].val)[2]))),
          symbols(args[2])).c

\* what C10 says of a call whose claimed solution parsed to claimed
EquationVerdict(claimed) ==
    /\ ret.value.verified
    /\ ret.value.is_correct = (\E i \in DOMAIN Solutions : Equivalent(Solutions[i], claimed))
    /\ Solutions = <<>> =>
          ~ret.value.is_correct /\ ret.value.correct_solutions = <<>>

IntegrationConstants ==
    { <<"7">>, <<"1", "/", "2">>, <<"-", "3">>, <<"0">> }

\* the text "F + k"
PlusConstant(F, k) == PyStr(F.val \o <<" ", "+", " ">> \o k)

\* a call of verify_integral for the variable x whose function and claimed
\* antiderivative both parse to expressions
IntegralInputs ==
    /\ Called("verify_integral")
    /\ args[2] = PyStr(<<"x">>)
    /\ parse_expression(args[1]).kind = "expr"
    /\ parse_expression(args[3]).kind = "expr"

\* the derivative of the claimed antiderivative is equivalent to the function
ClaimDifferentiatesToFunction ==
    Equivalent(Diff(parse_expression(args[3]), symbols(args[2])), parse_expression(args[1]))

\* C11: for a function f and a claimed antiderivative F, verify_integral
\* gives is_correct exactly when dF/dx is equivalent to f, whatever the
\* reference antiderivative is, and verify_integral(f, x, F + k) gives the
\* same is_correct for every constant k.
C11_ConstantOfIntegrationIsIgnored ==
    IntegralInputs =>
        /\ ret.kind = "return"
        /\ ret.value.verified
        /\ ret.value.is_correct = ClaimDifferentiatesToFunction
        /\ \A k \in IntegrationConstants :
              /\ verify_integral(args[1], args[2], PlusConstant(args[3], k)).verified
              /\ verify_integral(args[1], args[2], PlusConstant(args[3], k)).is_correct
                     = ret.value.is_correct

\* a correct claim that differs from the reference antiderivative by a
\* constant other than zero
C11_Witness ==
    /\ IntegralInputs
    /\ ret.kind = "return"
    /\ ret.value.verified
    /\ ret.value.is_correct
    /\ parse_expression(args[3]) /= Integrate(parse_expression(args[1]), symbols(args[2]))

\* ---------------------------------------------------------------------------
\* verify_derivative
\* ---------------------------------------------------------------------------

\* the symbol names of common_symbols (line 33)
\* a call of verify_derivative with a variable name whose function and claim
\* are both parsable, that is parse_expression returns a value for them
ParsableDerivativeInputs ==
    /\ Called("verify_derivative")
    /\ args[2].type = "str"
    /\ parse_expression(args[1]) /= NoneExpr
    /\ parse_expression(args[3]) /= NoneExpr

\* the derivative of the function with respect to the named variable is
\* equivalent to the claim
DerivativeVerdict ==
    Equivalent(Diff(parse_expression(args[1]), symbols(args[2])), parse_expression(args[3]))

QuadraticChecked ==
    /\ Called("check_quadratic_formula")
    /\ ret.kind = "return"
    /\ ret.value.verified
    /\ IsConstant(parse_expression(args[1]))
    /\ ~IsZero(parse_expression(args[1]))

\* r satisfies a*r^2 + b*r + c = 0, that is r is one of the two roots
\* (-b + sqrt(D))/(2a), (-b - sqrt(D))/(2a)
IsRoot(a, b, c, r) ==
    IsZero(VAdd(VAdd(VMul(a, VMul(r, r)), VMul(b, r)), c))

\* C13: each claimed entry is marked is_correct exactly when it is one of
\* the two roots of a*x^2 + b*x + c, and all_correct is the conjunction of
\* the marks of all claimed entries: one wrong entry makes it false, a list
\* naming one of two roots, or no root at all, leaves it true.
C13_QuadraticVerdicts ==
    QuadraticChecked =>
        /\ Len(ret.value.verification) = Len(args[4].val)
        /\ \A i \in 1..Len(args[4].val) :
              /\ ret.value.verification[i].claimed = args[4].val[i]
              /\ ret.value.verification[i].is_correct
                     = IsRoot(parse_expression(args[1]), parse_expression(args[2]),
                              parse_expression(args[3]), parse_expression(args[4].val[i]))
        /\ ret.value.all_correct
               = (\A i \in 1..Len(args[4].val) : ret.value.verification[i].is_correct)
        /\ (Len(args[4].val) = 0 => ret.value.all_correct)

\* a list that names one of two distinct roots and is all_correct
C13_Witness ==
    /\ QuadraticChecked
    /\ Len(args[4].val) = 1
    /\ ret.value.correct_solutions[1] /= ret.value.correct_solutions[2]
    /\ ret.value.verification[1].is_correct
    /\ ret.value.all_correct

\* a list with one right and one wrong entry
OneWrongEntry ==
    /\ QuadraticChecked
    /\ Len(args[4].val) = 2
    /\ ret.value.verification[1].is_correct
    /\ ~ret.value.verification[2].is_correct
    /\ ~ret.value.all_correct

\* ---------------------------------------------------------------------------
\* parse_expression and its clean-up, called on their own
\* ---------------------------------------------------------------------------

\* an int argument
PyInt(n) == [type |-> "int", val |-> n]

MaxTextLen == 3

\* the characters of the texts that are cleaned up: a digit, a letter, the
\* eight replaced glyphs, a space and '*'
NormalizeAlphabet ==
    { "2", "x", "^", TimesSign, DivSign, SqrtSign, Superscript2, Superscript3,
      PiSign, InfinitySign, " ", "*" }

NormalizeTexts ==
    UNION { [1..n -> NormalizeAlphabet] : n \in 0..MaxTextLen }

\* the arguments of parse_expression: texts, None and ints
ParseInputs ==
    { PyStr(<<"2", " ", "+", " ", "3", " ", "*", " ", "4">>),
      PyStr(<<"2", "x", " ", "+", " ", "5">>),
      PyStr(<<"x", "^", "2">>),
      PyStr(<<"(", "x", "+", "1", ")", "(", "x", "+", "1", ")">>),
      PyStr(<<"6", "/", "3">>),
      PyStr(<<"1", "/", "0">>),
      PyStr(<<"2", " ", "+">>),
      PyStr(<<>>),
      PyStr(<<" ">>),
      PyStr(<<" ", "\t", "\n">>),
      PyStr(<<"(", "1", ",", " ", "2", ")">>),
      PyStr(<<"1", " ", "=", "=", " ", "1">>),
      PyStr(<<"2", TimesSign, "3">>),
      PyStr(<<"6", DivSign, "3">>),
      PyStr(<<"x", Superscript2>>),
      PyStr(<<"x", Superscript3>>),
      PyStr(<<" ", " ", "2", "x", " ">>),
      PyStr(<<"2", ")", ")">>),
      PyStr(<<"N", "o", "n", "e">>),
      PyNone, PyInt(0), PyInt(5) }

InitParse ==
    /\ pc = "call"
    /\ ret = Pending
    /\ self = MathVerifier__init__
    /\ local = NoLocals
    /\ engine = NoEngine
    /\ \/ op = "normalize"
          /\ args \in {<<PyStr(s)>> : s \in NormalizeTexts}
       \/ op = "parse_expression"
          /\ args \in {<<v>> : v \in ParseInputs}

\* lines 45-63 applied to a text
NormalizeText ==
    /\ pc = "call" /\ op = "normalize"
    /\ ret' = Return(PyStr(Normalize(args[1].val)))
    /\ Done

ParseExpression ==
    /\ pc = "call" /\ op = "parse_expression"
    /\ ret' = Outcome(parse_expression(args[1]))
    /\ Done

NextParse ==
    \/ NormalizeText
    \/ ParseExpression

SpecParse == InitParse /\ [][NextParse]_vars

\* C14: the clean-up of parse_expression (strip, the replacements of the
\* eight glyphs, '*' between a digit and a following letter) is idempotent:
\* cleaning up a cleaned-up text changes nothing.
C14_NormalizeIsIdempotent ==
    Called("normalize") => Normalize(ret.value.val) = ret.value.val

\* a text with a digit before a letter and a glyph, changed by the clean-up
C14_Witness ==
    /\ Called("normalize")
    /\ Contains(args[1].val, <<"2", "x">>)
    /\ Range(args[1].val) \cap {Superscript2, Superscript3, PiSign, InfinitySign, SqrtSign} /= {}
    /\ ret.value.val /= args[1].val

\* the kinds of value that are expressions
ExpressionKinds == {"expr", "zoo", "nan", "surd"}

\* the argument passes the guard of line 40
PassesGuard == args[1].type = "str" /\ Len(args[1].val) > 0

\* C15 as stated: parse_expression returns an Expression or None for every
\* input and never raises.
C15_ExpressionOrNone ==
    Called("parse_expression") =>
        /\ ret.kind = "return"
        /\ \/ ret.value = NoneExpr
           \/ ret.value.kind \in ExpressionKinds

\* C15: parse_expression never raises; an empty or non-string argument gives
\* None, an error of the parser (also for whitespace-only text) gives None,
\* and every other text gives the value the parser returns, which is an
\* Expression or, for a text that evaluates to a tuple or a truth value,
\* that value.
C15_ParseNeverRaises ==
    Called("parse_expression") =>
        /\ ret.kind = "return"
        /\ ~PassesGuard => ret.value = NoneExpr
        /\ PassesGuard =>
              IF parse_expr(Normalize(args[1].val)).kind = "exception"
              THEN ret.value = NoneExpr
              ELSE /\ ret.value = parse_expr(Normalize(args[1].val))
                   /\ ret.value.kind \in ExpressionKinds \cup {"nonexpr", "None"}
        /\ (PassesGuard /\ Strip(args[1].val) = <<>>) => ret.value = NoneExpr

\* whitespace-only text: the guard lets it pass, the parser raises, the
\* result is None
C15_Witness ==
    /\ Called("parse_expression")
    /\ PassesGuard
    /\ Strip(args[1].val) = <<>>
    /\ parse_expr(Normalize(args[1].val)).kind = "exception"
    /\ ret = Return(NoneExpr)

\* ---------------------------------------------------------------------------
\* solver.py: ProblemSolver._extract_steps
\* ---------------------------------------------------------------------------

\* [:\.\)]
Separators == {":", ".", ")"}

\* Step\s*\d+ at i, under re.IGNORECASE
StepAhead(s, i) ==
    /\ i + 3 <= Len(s)
    /\ Lower(SubSeq(s, i, i + 3)) = <<"s", "t", "e", "p">>
    /\ At(s, SkipWhile(s, i + 4, Spaces)) \in Digits

\* \d+[:\.\)] at i
NumberAhead(s, i) ==
    /\ At(s, i) \in Digits
    /\ At(s, SkipWhile(s, i, Digits)) \in Separators

\* the lookahead of step_patterns[k] at i: (?=Step\s*\d+|$) or
\* (?=\d+[:\.\)]|$), where $ is the end of the text or its final newline
Lookahead(k, s, i) ==
    \/ i = Len(s) + 1
    \/ i = Len(s) /\ s[i] = "\n"
    \/ IF k = 1 THEN StepAhead(s, i) ELSE NumberAhead(s, i)

\* (.+?) from c under re.DOTALL: the position after the shortest text of at
\* least one character that is followed by the lookahead
ContentEnd(k, s, c) ==
    CHOOSE e \in (c + 1)..(Len(s) + 1) :
        /\ Lookahead(k, s, e)
        /\ \A d \in (c + 1)..(e - 1) : ~Lookahead(k, s, d)

\* (.+?)(?=...) for a content that starts at c
content_from(k, s, num, c) ==
    Match(ContentEnd(k, s, c), <<num, SubSeq(s, c, ContentEnd(k, s, c) - 1)>>)

\* [:\.\)]\s*(.+?)(?=...) from j, after the digits num: \s* takes all white
\* space and gives its last character back when nothing else is left for
\* the content
step_content(k, s, num, j) ==
    IF At(s, j) \notin Separators THEN NoMatch
    ELSE IF SkipWhile(s, j + 1, Spaces) <= Len(s)
         THEN content_from(k, s, num, SkipWhile(s, j + 1, Spaces))
    ELSE IF Len(s) > j THEN content_from(k, s, num, Len(s))
    ELSE NoMatch

\* (\d+) from n, then the rest of the pattern
step_number(k, s, n) ==
    IF At(s, n) \notin Digits THEN NoMatch
    ELSE step_content(k, s, SubSeq(s, n, SkipWhile(s, n, Digits) - 1), SkipWhile(s, n, Digits))

\* step_patterns[k] matched at i:
\*   1: Step\s*(\d+)[:\.\)]\s*(.+?)(?=Step\s*\d+|$)
\*   2: (\d+)[:\.\)]\s*(.+?)(?=\d+[:\.\)]|$)
step_patterns(k, s, i) ==
    IF k = 2 THEN step_number(2, s, i)
    ELSE IF i + 3 <= Len(s) /\ Lower(SubSeq(s, i, i + 3)) = <<"s", "t", "e", "p">>
         THEN step_number(1, s, SkipWhile(s, i + 4, Spaces))
    ELSE NoMatch

\* re.findall(pattern, text, re.DOTALL | re.IGNORECASE) from i: the groups
\* (num, content) of the matches, left to right, without overlap
RECURSIVE findall(_, _, _)
findall(k, s, i) ==
    IF i > Len(s) THEN <<>>
    ELSE IF step_patterns(k, s, i).ok
         THEN <<step_patterns(k, s, i).groups>> \o findall(k, s, step_patterns(k, s, i).end)
    ELSE findall(k, s, i + 1)

\* the steps numbered by their position in the list of matches
steps_resequenced(matches) ==
    [i \in DOMAIN matches |->
        [number |-> i, content |-> PyStr(Strip(matches[i][2]))]]

\* lines 389-393: {'number': int(num), 'content': content.strip()} per match
steps_of(matches) ==
    [i \in DOMAIN matches |->
        [number |-> IntOf(matches[i][1]), content |-> PyStr(Strip(matches[i][2]))]]

\* the loop of lines 386-394 without the break: the matches of both patterns
extract_steps_from_both(first, second) ==
    steps_of(first) \o steps_of(second)

\* the loop of lines 386-394 for the matches of the two patterns
extract_steps_from(first, second) ==
    IF first /= <<>> THEN steps_of(first) ELSE steps_of(second)

_extract_steps(text) ==
    IF text.type /= "str" THEN Exception("TypeError")
    ELSE List(extract_steps_from(findall(1, text.val, 1), findall(2, text.val, 1)))

\* ---------------------------------------------------------------------------
\* solver.py: ProblemSolver._parse_solution
\* ---------------------------------------------------------------------------

\* str.split(sep) for a one-character sep
RECURSIVE split(_, _)
split(s, sep) ==
    IF sep \notin Range(s) THEN <<s>>
    ELSE <<SubSeq(s, 1, SkipWhile(s, 1, Range(s) \ {sep}) - 1)>>
           \o split(SubSeq(s, SkipWhile(s, 1, Range(s) \ {sep}) + 1, Len(s)), sep)

\* str.strip(chars)
StripChars(s, chars) ==
    IF Range(s) \subseteq chars THEN <<>>
    ELSE SubSeq(s, SkipWhile(s, 1, chars),
                CHOOSE b \in DOMAIN s :
                    s[b] \notin chars /\ \A k \in (b + 1)..Len(s) : s[k] \in chars)

\* line 348: line.startswith('**') and '**' in line[2:]
is_header(line) ==
    /\ Len(line) >= 2
    /\ line[1] = "*"
    /\ line[2] = "*"
    /\ Contains(SubSeq(line, 3, Len(line)), <<"*", "*">>)

\* line 351: line.strip('*: ').lower().replace(' ', '_')
section_name(line) ==
    Replace(Lower(StripChars(line, {"*", ":", " "})), " ", <<"_">>)

\* sections[key] = value on a dict kept as the sequence of its items
Put(sections, key, value) ==
    IF \E i \in DOMAIN sections : sections[i].key = key
    THEN [i \in DOMAIN sections |->
            IF sections[i].key = key THEN [key |-> key, value |-> value] ELSE sections[i]]
    ELSE Append(sections, [key |-> key, value |-> value])

\* sections.get(key, default)
Get(sections, key, default) ==
    IF \E i \in DOMAIN sections : sections[i].key = key
    THEN sections[CHOOSE i \in DOMAIN sections : sections[i].key = key].value
    ELSE default

\* a plausible slip: the section written whether or not it has content
save_section_always(sections, current_section, current_content) ==
    Put(sections, current_section, PyStr(Strip(Join(current_content, <<"\n">>))))

\* lines 349-350 and 358-359: if current_content:
\*     sections[current_section] = '\n'.join(current_content).strip()
save_section(sections, current_section, current_content) ==
    IF current_content = <<>> THEN sections
    ELSE Put(sections, current_section, PyStr(Strip(Join(current_content, <<"\n">>))))

\* the loop of lines 346-355 over the remaining lines, then lines 358-359
RECURSIVE split_sections(_, _, _, _)
split_sections(lines, sections, current_section, current_content) ==
    IF lines = <<>> THEN save_section(sections, current_section, current_content)
    ELSE IF is_header(Head(lines))
         THEN split_sections(Tail(lines),
                             save_section(sections, current_section, current_content),
                             section_name(Head(lines)), <<>>)
    ELSE split_sections(Tail(lines), sections, current_section,
                        Append(current_content, Head(lines)))

\* the record with the raw response as its explanation, whatever the sections
parse_result_raw_explanation(response_text, problem_type, sections, steps) ==
    IF IsException(steps) THEN steps
    ELSE [full_response |-> response_text,
          sections |-> sections,
          steps |-> steps.c,
          explanation |-> response_text,
          answer |-> Get(sections, <<"f", "i", "n", "a", "l", "_", "a", "n", "s", "w", "e", "r">>, PyNone),
          problem_type |-> problem_type]

\* the record with the answer looked up under the key 'answer'
parse_result_answer_key(response_text, problem_type, sections, steps) ==
    IF IsException(steps) THEN steps
    ELSE [full_response |-> response_text,
          sections |-> sections,
          steps |-> steps.c,
          explanation |-> Get(sections, <<"e", "x", "p", "l", "a", "n", "a", "t", "i", "o", "n">>, response_text),
          answer |-> Get(sections, <<"a", "n", "s", "w", "e", "r">>, PyNone),
          problem_type |-> problem_type]

\* lines 362-374: the record for the sections and the steps
parse_result(response_text, problem_type, sections, steps) ==
    IF IsException(steps) THEN steps
    ELSE [full_response |-> response_text,
          sections |-> sections,
          steps |-> steps.c,
          explanation |-> Get(sections, <<"e", "x", "p", "l", "a", "n", "a", "t", "i", "o", "n">>, response_text),
          answer |-> Get(sections, <<"f", "i", "n", "a", "l", "_", "a", "n", "s", "w", "e", "r">>, PyNone),
          problem_type |-> problem_type]

_parse_solution(response_text, problem_type) ==
    IF response_text.type /= "str" THEN Exception("AttributeError")
    ELSE parse_result(response_text, problem_type,
                      split_sections(split(response_text.val, "\n"), <<>>, <<"e", "x", "p", "l", "a", "n", "a", "t", "i", "o", "n">>, <<>>),
                      _extract_steps(response_text))

\* ---------------------------------------------------------------------------
\* calls of ProblemSolver._extract_steps and ProblemSolver._parse_solution
\* ---------------------------------------------------------------------------

MaxLines == 3

\* up to MaxLines of the given lines joined by newlines
TextsOf(lines) ==
    { PyStr(Join(ls, <<"\n">>)) : ls \in UNION { [1..n -> lines] : n \in 0..MaxLines } }

\* lines of a response with numbered steps
StepLines ==
    { <<"S", "t", "e", "p", " ", "1", ":", " ", "A", "d", "d", " ", "2", " ", "a", "n", "d", " ", "3">>,
      <<"S", "t", "e", "p", " ", "2", ":", " ", "M", "u", "l", "t", "i", "p", "l", "y", " ", "b", "y", " ", "4">>,
      <<"S", "t", "e", "p", " ", "0", ":", " ", "R", "e", "a", "d">>,
      <<"S", "t", "e", "p", " ", "3", ":", " ", "U", "s", "e", " ", "s", "t", "e", "p", " ", "1", " ">>,
      <<"S", "t", "e", "p", " ", "2", ":">>,
      <<"2", ".", " ", "C", "h", "e", "c", "k">>,
      <<"S", "T", "E", "P", " ", "4", ")", " ", "D", "o", "n", "e">>,
      <<>> }

\* the texts handed to _extract_steps
StepTexts == TextsOf(StepLines) \cup { PyNone }

\* lines of a response with section headers
SectionLines ==
    { <<"*", "*", "F", "i", "n", "a", "l", " ", "A", "n", "s", "w", "e", "r", ":", "*", "*">>,
      <<"*", "*", "F", "i", "n", "a", "l", " ", "A", "n", "s", "w", "e", "r", "*", "*", ":", " ", "4", "2">>,
      <<"*", "*", "E", "x", "p", "l", "a", "n", "a", "t", "i", "o", "n", "*", "*">>,
      <<" ", "4", "2", " ">>,
      <<>>,
      <<"*", "*", "N", "o", "t", "e">>,
      <<"*", "*", "A", "n", "s", "w", "e", "r", "*", "*", ":", " ", "4", "2">>,
      <<"S", "t", "e", "p", " ", "1", ":", " ", "A", "d", "d", " ", "2", " ", "a", "n", "d", " ", "3">> }

\* the responses handed to _parse_solution
ResponseTexts == TextsOf(SectionLines) \cup { PyNone }

ProblemTypes == { PyStr(<<"m", "a", "t", "h">>) }

InitSolution ==
    /\ pc = "call"
    /\ ret = Pending
    /\ self = ProblemSolver__init__("None")
    /\ local = NoLocals
    /\ engine = NoEngine
    /\ \/ op = "_extract_steps"
          /\ args \in {<<t>> : t \in StepTexts}
       \/ op = "_parse_solution"
          /\ args \in ResponseTexts \X ProblemTypes

ExtractSteps ==
    /\ pc = "call" /\ op = "_extract_steps"
    /\ ret' = Outcome(_extract_steps(args[1]))
    /\ Done

ParseSolution ==
    /\ pc = "call" /\ op = "_parse_solution"
    /\ ret' = Outcome(_parse_solution(args[1], args[2]))
    /\ Done

NextSolution ==
    \/ ExtractSteps
    \/ ParseSolution

SpecSolution == InitSolution /\ [][NextSolution]_vars

\* ---------------------------------------------------------------------------
\* step extraction
\* ---------------------------------------------------------------------------

\* a call of _extract_steps on a text that has returned
Extracted == Called("_extract_steps") /\ args[1].type = "str" /\ ret.kind = "return"

\* the steps of the matches of the 'Step N: content' shape
StepShape == steps_of(findall(1, args[1].val, 1))

\* the steps of the matches of the bare 'N: content' shape
BareShape == steps_of(findall(2, args[1].val, 1))

\* C16: the steps are those of the 'Step N: content' shape over the whole
\* text when that shape matches anywhere, and those of the bare
\* 'N: content' shape only when it does not; the two are never merged.
C16_FirstShapeWins ==
    Extracted =>
        /\ StepShape /= <<>> => ret.value.c = StepShape
        /\ StepShape = <<>> => ret.value.c = BareShape

\* a text in which both shapes match, with different steps
C16_Witness ==
    /\ Extracted
    /\ StepShape /= <<>>
    /\ BareShape /= <<>>
    /\ BareShape /= StepShape
    /\ ret.value.c = StepShape

\* C17 as stated: every step has a number that is at least 1.
C17_NumbersArePositive ==
    Extracted => \A i \in DOMAIN ret.value.c : ret.value.c[i].number >= 1

\* digits written in the text directly before a separator
WrittenNumbers ==
    { IntOf(SubSeq(args[1].val, q[1], q[2])) :
        q \in { p \in (DOMAIN args[1].val) \X (DOMAIN args[1].val) :
                         /\ p[1] <= p[2]
                         /\ \A k \in p[1]..p[2] : args[1].val[k] \in Digits
                         /\ At(args[1].val, p[2] + 1) \in Separators } }

\* C17: every step has a number that is a natural number, the value of
\* digits written in the text before a separator; it can be 0.
C17_NumbersAreWritten ==
    Extracted =>
        \A i \in DOMAIN ret.value.c :
            /\ ret.value.c[i].number \in Nat
            /\ ret.value.c[i].number \in WrittenNumbers

\* a step numbered 0
C17_Witness ==
    /\ Extracted
    /\ \E i \in DOMAIN ret.value.c : ret.value.c[i].number = 0

\* a line 'Step n: c' with a content c that is not blank
IsStepLine(line) ==
    /\ Len(line) >= 7
    /\ SubSeq(line, 1, 5) = <<"S", "t", "e", "p", " ">>
    /\ line[6] \in Digits
    /\ At(line, SkipWhile(line, 6, Digits)) = ":"
    /\ Strip(SubSeq(line, SkipWhile(line, 6, Digits) + 1, Len(line))) /= <<>>

\* the step a line 'Step n: c' stands for
StepOfLine(line) ==
    [number |-> IntOf(SubSeq(line, 6, SkipWhile(line, 6, Digits) - 1)),
     content |-> PyStr(Strip(SubSeq(line, SkipWhile(line, 6, Digits) + 1, Len(line))))]

\* C18: for a text made of lines 'Step n: c' the steps are one per line, in
\* the order of the lines, with the number n and the content c trimmed.
C18_OneStepPerLine ==
    (Extracted /\ \A i \in DOMAIN split(args[1].val, "\n") :
                      IsStepLine(split(args[1].val, "\n")[i]))
    => ret.value.c = [i \in DOMAIN split(args[1].val, "\n") |->
                        StepOfLine(split(args[1].val, "\n")[i])]

\* ---------------------------------------------------------------------------
\* section splitting
\* ---------------------------------------------------------------------------

\* a call of _parse_solution on a text that has returned
Parsed == Called("_parse_solution") /\ args[1].type = "str" /\ ret.kind = "return"

HasKey(sections, key) == \E i \in DOMAIN sections : sections[i].key = key

\* the lines of the response
ResponseLinesOf == split(args[1].val, "\n")

\* the text between the opening '**' of a header line and the next '**'
HeaderText(line) ==
    SubSeq(line, 3,
           (CHOOSE i \in 3..Len(line) :
               /\ At(line, i) = "*" /\ At(line, i + 1) = "*"
               /\ \A k \in 3..(i - 1) : ~(At(line, k) = "*" /\ At(line, k + 1) = "*")) - 1)

\* the header text without markers and punctuation, lower-cased, with
\* underscores for spaces
HeaderKey(line) ==
    Replace(Lower(StripChars(HeaderText(line), {"*", ":", " "})), " ", <<"_">>)

\* C19: a header line followed by a line of content starts a section whose
\* key is the header text stripped of markers and punctuation, lower-cased,
\* with underscores for spaces: 'final_answer' for '**Final Answer:**' and
\* for '**Final Answer**: 42'.
C19_HeaderKey ==
    Parsed =>
        \A i \in DOMAIN ResponseLinesOf :
            (/\ is_header(ResponseLinesOf[i])
             /\ i + 1 \in DOMAIN ResponseLinesOf
             /\ ~is_header(ResponseLinesOf[i + 1]))
            => HasKey(ret.value.sections, HeaderKey(ResponseLinesOf[i]))

\* ---------------------------------------------------------------------------
\* the explanation field
\* ---------------------------------------------------------------------------

NoHeaderFound == \A i \in DOMAIN ResponseLinesOf : ~is_header(ResponseLinesOf[i])

ExplanationKey == <<"e", "x", "p", "l", "a", "n", "a", "t", "i", "o", "n">>

\* C20 as stated: the explanation is the text of the 'explanation' section,
\* and the unmodified raw response when no header was found.
C20_RawWhenNoHeader ==
    Parsed =>
        /\ HasKey(ret.value.sections, ExplanationKey)
              => ret.value.explanation = Get(ret.value.sections, ExplanationKey, PyNone)
        /\ NoHeaderFound => ret.value.explanation = args[1]

\* C20: the explanation is the text of the 'explanation' section when the
\* section map has one, which is so for every response without a header
\* (the whole text, trimmed); it is the unmodified raw response when the
\* map has none, and then the response begins with a header line.
C20_ExplanationField ==
    Parsed =>
        /\ HasKey(ret.value.sections, ExplanationKey)
              => ret.value.explanation = Get(ret.value.sections, ExplanationKey, PyNone)
        /\ ~HasKey(ret.value.sections, ExplanationKey)
              => /\ ret.value.explanation = args[1]
                 /\ is_header(ResponseLinesOf[1])
        /\ NoHeaderFound
              => /\ HasKey(ret.value.sections, ExplanationKey)
                 /\ ret.value.explanation = PyStr(Strip(args[1].val))

\* a response that begins with a header: headers are found, and the
\* explanation is the raw response
C20_Witness ==
    /\ Parsed
    /\ ~NoHeaderFound
    /\ ret.value.sections /= <<>>
    /\ ~HasKey(ret.value.sections, ExplanationKey)
    /\ ret.value.explanation = args[1]

\* ---------------------------------------------------------------------------
\* the answer field
\* ---------------------------------------------------------------------------

FinalAnswerKey == <<"f", "i", "n", "a", "l", "_", "a", "n", "s", "w", "e", "r">>

\* the response has a line in the prompted form '**Answer**: value'
PromptedAnswerLine ==
    \E i \in DOMAIN ResponseLinesOf : ResponseLinesOf[i] = <<"*", "*", "A", "n", "s", "w", "e", "r", "*", "*", ":", " ", "4", "2">>

\* C21: the answer is the body of the section keyed 'final_answer' when the
\* section map has one and None otherwise; a response with a line
\* '**Answer**: value' has an answer only if it has a 'final_answer' section.
C21_AnswerField ==
    Parsed =>
        /\ HasKey(ret.value.sections, FinalAnswerKey)
              => ret.value.answer = Get(ret.value.sections, FinalAnswerKey, PyNone)
        /\ ~HasKey(ret.value.sections, FinalAnswerKey) => ret.value.answer = PyNone
        /\ (PromptedAnswerLine /\ ret.value.answer /= PyNone)
              => HasKey(ret.value.sections, FinalAnswerKey)

\* a response with a 'final_answer' section whose body, 42, is the answer
C21_Witness ==
    /\ Parsed
    /\ HasKey(ret.value.sections, FinalAnswerKey)
    /\ ret.value.answer = PyStr(<<"4", "2">>)

\* a response in the prompted form, without a 'final_answer' section and
\* so without an answer
PromptedFormHasNoAnswer ==
    /\ Parsed
    /\ PromptedAnswerLine
    /\ ~HasKey(ret.value.sections, FinalAnswerKey)
    /\ ret.value.answer = PyNone

\* ---------------------------------------------------------------------------
\* the verification report
\* ---------------------------------------------------------------------------

\* a call of create_verification_report on a list that is not empty
Reported == Called("create_verification_report") /\ Len(args[1]) > 0

\* the lines of the report
ReportLines == split(ret.value.val, "\n")

\* the indexes of the lines that begin with a digit: the lines of the items
ItemLineIndexes(lines) == {k \in DOMAIN lines : At(lines[k], 1) \in Digits}

\* the index of the line of the i-th item
ItemLineIndex(idx, i) ==
    CHOOSE k \in idx : Cardinality({j \in idx : j <= k}) = i

\* the lines after line k and before the line of the next item
LinesAfter(lines, idx, k) ==
    { lines[j] : j \in { n \in DOMAIN lines :
                           n > k /\ \A m \in idx : m > k => n < m } }

\* the lines under the line of the i-th item
LinesUnder(lines, idx, i) == LinesAfter(lines, idx, ItemLineIndex(idx, i))

\* the item has is_correct, and it is true / false
MarkedCorrect(v) == "is_correct" \in DOMAIN v /\ v.is_correct

MarkedIncorrect(v) == "is_correct" \in DOMAIN v /\ ~v.is_correct

ItemsCorrect(vs) == Cardinality({i \in DOMAIN vs : MarkedCorrect(vs[i])})

\* the header 'correct/total' for the counts of the list
HeaderIsCorrectOfTotal(lines, vs) ==
    /\ lines[1] = <<"#", "#", " ", "C", "a", "l", "c", "u", "l", "a", "t", "i", "o", "n", " ", "V", "e", "r", "i", "f", "i", "c", "a", "t", "i", "o", "n", " ", "R", "e", "p", "o", "r", "t">>
    /\ lines[3] = <<"*", "*", "R", "e", "s", "u", "l", "t", ":", " ">> \o NatStr(ItemsCorrect(vs)) \o <<"/">>
                     \o NatStr(Len(vs)) \o <<" ", "c", "a", "l", "c", "u", "l", "a", "t", "i", "o", "n", "s", " ", "v", "e", "r", "i", "f", "i", "e", "d", " ", "c", "o", "r", "r", "e", "c", "t", "*", "*">>

\* the 'Expected' line of an item
ExpectedLine(v) == <<" ", " ", " ", "-", " ", "E", "x", "p", "e", "c", "t", "e", "d", ":", " ">> \o v.actual.val

\* one line per item, in list order, with its mark and its hint
OneLinePerItem(lines, idx, vs) ==
    /\ Cardinality(idx) = Len(vs)
    /\ \A i \in DOMAIN vs :
          /\ lines[ItemLineIndex(idx, i)]
                = NatStr(i) \o <<".", " ">>
                    \o <<IF MarkedCorrect(vs[i]) THEN CheckMark ELSE BallotX>>
                    \o <<" ", Backtick>> \o item_label(vs[i]) \o <<Backtick>>
          /\ MarkedIncorrect(vs[i]) => ExpectedLine(vs[i]) \in LinesUnder(lines, idx, i)
          /\ MarkedCorrect(vs[i]) => \A l \in LinesUnder(lines, idx, i) : l = <<>>

\* C22: for a list that is not empty the report has the header
\* 'correct/total', total being the number of items and correct the number
\* of items with is_correct true, then one line per item in list order with
\* a check mark when is_correct is true and a ballot x otherwise; every item
\* with is_correct false has an 'Expected: actual' line and no item with a
\* check mark has one.
C22_ReportLines ==
    Reported =>
        /\ HeaderIsCorrectOfTotal(ReportLines, args[1])
        /\ OneLinePerItem(ReportLines, ItemLineIndexes(ReportLines), args[1])

\* a report of a right and then a wrong calculation, with its hint
C22_Witness ==
    /\ Reported
    /\ Len(args[1]) = 2
    /\ MarkedCorrect(args[1][1])
    /\ MarkedIncorrect(args[1][2])
    /\ ExpectedLine(args[1][2]) \in LinesUnder(ReportLines, ItemLineIndexes(ReportLines), 2)

\* items that failed outright have a ballot x and no detail line; detail
\* lines stand only under items whose is_correct is false
DetailsOnlyWhenIncorrect(lines, idx, vs) ==
    \A i \in DOMAIN vs :
        /\ ~vs[i].verified =>
              /\ "is_correct" \notin DOMAIN vs[i]
              /\ Truthy(vs[i].error)
              /\ lines[ItemLineIndex(idx, i)][Len(NatStr(i)) + 3] = BallotX
              /\ \A l \in LinesUnder(lines, idx, i) : l = <<>>
        /\ (\E l \in LinesUnder(lines, idx, i) : l /= <<>>) => MarkedIncorrect(vs[i])

\* C28: an item that failed outright (verified false, without is_correct)
\* counts in the total and not in the correct count, has a ballot x and no
\* detail line although it carries an error text; detail lines stand only
\* under items whose is_correct is false; the empty list gives the fixed
\* text without a header.
C28_FailedItemsHaveNoDetail ==
    /\ Reported =>
          /\ HeaderIsCorrectOfTotal(ReportLines, args[1])
          /\ DetailsOnlyWhenIncorrect(ReportLines, ItemLineIndexes(ReportLines), args[1])
    /\ (Called("create_verification_report") /\ Len(args[1]) = 0)
          => ret.value = PyStr(<<"N", "o", " ", "c", "a", "l", "c", "u", "l", "a", "t", "i", "o", "n", "s", " ", "d", "e", "t", "e", "c", "t", "e", "d", " ", "f", "o", "r", " ", "v", "e", "r", "i", "f", "i", "c", "a", "t", "i", "o", "n", ".">>)

\* a report with an item that failed outright next to a verified one
C28_Witness ==
    /\ Reported
    /\ \E i, j \in DOMAIN args[1] : ~args[1][i].verified /\ args[1][j].verified
    /\ ItemsCorrect(args[1]) < Len(args[1])

\* ---------------------------------------------------------------------------
\* the text handed to the parser
\* ---------------------------------------------------------------------------

\* the characters that are replaced
ReplacedGlyphs ==
    { "^", TimesSign, DivSign, SqrtSign, Superscript2, Superscript3, PiSign, InfinitySign }

\* a digit directly before a letter
DigitBeforeLetter(s) ==
    \E i \in 1..(Len(s) - 1) : s[i] \in Digits /\ s[i + 1] \in Letters

\* C24: the cleaned-up text has none of the eight replaced characters and
\* no digit directly before a letter; the replacements come first, so a
\* digit before a glyph that becomes letters also gets its '*'.
C24_NoGlyphNoDigitLetter ==
    Called("normalize") =>
        /\ Range(ret.value.val) \cap ReplacedGlyphs = {}
        /\ ~DigitBeforeLetter(ret.value.val)

\* a digit before the pi sign or the root sign becomes '2*pi' or '2*sqrt'
C24_Witness ==
    /\ Called("normalize")
    /\ \/ Contains(args[1].val, <<"2", PiSign>>)
       \/ Contains(args[1].val, <<"2", SqrtSign>>)
    /\ \/ Contains(ret.value.val, <<"2", "*", "p", "i">>)
       \/ Contains(ret.value.val, <<"2", "*", "s", "q", "r", "t">>)

\* ---------------------------------------------------------------------------
\* the results of a scan, match by match
\* ---------------------------------------------------------------------------

\* the first position from i on at which span occurs in s, 0 if none
FirstOccurrence(s, span, i) ==
    IF \E k \in i..(Len(s) - Len(span) + 1) : SubSeq(s, k, k + Len(span) - 1) = span
    THEN CHOOSE k \in i..(Len(s) - Len(span) + 1) :
            /\ SubSeq(s, k, k + Len(span) - 1) = span
            /\ \A j \in i..(k - 1) : SubSeq(s, j, j + Len(span) - 1) /= span
    ELSE 0

\* the spans lie in s one after the other, from position i on
RECURSIVE InTextOrder(_, _, _)
InTextOrder(s, spans, i) ==
    \/ Len(spans) = 0
    \/ /\ FirstOccurrence(s, Head(spans), i) > 0
       /\ InTextOrder(s, Tail(spans), FirstOccurrence(s, Head(spans), i) + Len(Head(spans)))

\* 'A op B' for the groups of a match of shape (1)
SafeExpression(g) ==
    PyStr(g[1] \o <<" ", (IF g[2] = <<TimesSign>> THEN "*"
                          ELSE IF g[2] = <<DivSign>> THEN "/" ELSE g[2][1]), " ">> \o g[3])

\* items[k + i] is the verification of the i-th match of shape (1)
ArithmeticItems(items, matches) ==
    \A i \in DOMAIN matches :
        /\ items[i].type = "arithmetic"
        /\ items[i].match = PyStr(matches[i].match)
        /\ items[i] = Tag(verify_arithmetic(SafeExpression(matches[i].groups),
                                            PyStr(matches[i].groups[4])),
                          matches[i].match, "arithmetic")

\* items[k + i] is the verification of the i-th match of shape (3)
EquationResultItems(items, k, matches) ==
    \A i \in DOMAIN matches :
        /\ items[k + i].type = "equation_result"
        /\ items[k + i].match = PyStr(matches[i].match)
        /\ items[k + i] = Tag(verify_arithmetic(PyStr(Strip(matches[i].groups[2])),
                                                PyStr(matches[i].groups[3])),
                              matches[i].match, "equation_result")

\* the spans of the matches
Spans(matches) == [i \in DOMAIN matches |-> matches[i].match]

ScanResultsFor(s, items, first, third) ==
    /\ Len(items) = Len(first) + Len(third)
    /\ ArithmeticItems(items, first)
    /\ EquationResultItems(items, Len(first), third)
    /\ InTextOrder(s, Spans(first), 1)
    /\ InTextOrder(s, Spans(third), 1)
    /\ \A i \in DOMAIN items : items[i].type /= "assignment"

\* C25: every match of 'A op B = C' gives one verification of 'A op B'
\* against C, with the multiplication and division signs written '*' and
\* '/'; every match of 'letter = expr = value' gives one verification of
\* expr against value; matches of the bare assignment give nothing; every
\* result carries the matched span and the kind of its pattern, in text
\* order within a kind.
C25_OneResultPerMatch ==
    Scanned => ScanResultsFor(args[2].val, ret.value,
                              finditer("arithmetic", args[2].val, 1),
                              finditer("equation_result", args[2].val, 1))

\* a scan with a match written with the multiplication sign and verified
\* as '2 * 3' against 6, in a text that also has a bare assignment
C25_Witness ==
    /\ Scanned
    /\ Len(finditer("assignment", args[2].val, 1)) > 0
    /\ \E i \in DOMAIN ret.value :
          /\ ret.value[i].type = "arithmetic"
          /\ TimesSign \in Range(ret.value[i].match.val)
          /\ ret.value[i].expression = PyStr(<<"2", " ", "*", " ", "3">>)
          /\ ret.value[i].is_correct

\* ---------------------------------------------------------------------------
\* the section map
\* ---------------------------------------------------------------------------

\* where sections start: 0 for the text before the first header, and the
\* index of every header line
SectionStarts(lines) == {0} \cup {i \in DOMAIN lines : is_header(lines[i])}

\* the lines accumulated for the section started at i: the lines after i
\* up to the next header line
AccumulatedLines(lines, i) ==
    SubSeq(lines, i + 1,
           IF \E j \in (i + 1)..Len(lines) : is_header(lines[j])
           THEN (CHOOSE j \in (i + 1)..Len(lines) :
                    is_header(lines[j]) /\ \A k \in (i + 1)..(j - 1) : ~is_header(lines[k])) - 1
           ELSE Len(lines))

KeyStartedAt(lines, i) == IF i = 0 THEN ExplanationKey ELSE section_name(lines[i])

\* the starts of the sections of this key that accumulated a line
StartsWithContent(lines, key) ==
    {i \in SectionStarts(lines) :
        KeyStartedAt(lines, i) = key /\ AccumulatedLines(lines, i) /= <<>>}

LastOf(S) == CHOOSE i \in S : \A j \in S : j <= i

SectionMapFor(lines, sections) ==
    /\ \A i \in SectionStarts(lines) :
          HasKey(sections, KeyStartedAt(lines, i))
              <=> StartsWithContent(lines, KeyStartedAt(lines, i)) /= {}
    /\ \A k \in DOMAIN sections :
          /\ StartsWithContent(lines, sections[k].key) /= {}
          /\ sections[k].value =
                PyStr(Strip(Join(AccumulatedLines(lines,
                                    LastOf(StartsWithContent(lines, sections[k].key))),
                                 <<"\n">>)))
          /\ \A j \in DOMAIN sections : sections[j].key = sections[k].key => j = k

\* C29: a key is in the section map exactly when a line that is not a
\* header was accumulated for it, so a header followed at once by a header
\* or by the end of the text gives no entry; the body is the trimmed join of
\* the lines accumulated after the last header of that key that has any,
\* and holds nothing of a header line.
C29_SectionMap ==
    Parsed => SectionMapFor(ResponseLinesOf, ret.value.sections)

\* a response whose leading text is replaced as 'explanation' by the body
\* under a later '**Explanation**' header
C29_Witness ==
    /\ Parsed
    /\ Cardinality(StartsWithContent(ResponseLinesOf, ExplanationKey)) = 2
    /\ Get(ret.value.sections, ExplanationKey, PyNone)
          = PyStr(Strip(ResponseLinesOf[Len(ResponseLinesOf)]))
    /\ Get(ret.value.sections, ExplanationKey, PyNone) /= PyStr(Strip(ResponseLinesOf[1]))
    /\ Get(ret.value.sections, ExplanationKey, PyNone) /= PyStr(<<>>)

\* a header followed at once by a header, and a header at the end of the
\* text, neither with an entry
HeaderWithoutEntry ==
    /\ Parsed
    /\ Len(ResponseLinesOf) = 3
    /\ is_header(ResponseLinesOf[2])
    /\ is_header(ResponseLinesOf[3])
    /\ ~HasKey(ret.value.sections, section_name(ResponseLinesOf[2]))
    /\ ~HasKey(ret.value.sections, section_name(ResponseLinesOf[3]))
    /\ Len(ret.value.sections) = 1

\* ---------------------------------------------------------------------------
\* ProblemSolver.solve: the choice of engine, the chat calls and the fallback
\* ---------------------------------------------------------------------------

PyBytes(b) == [type |-> "bytes", val |-> b]

VISION_MODEL == "llava:7b"

TEXT_MODEL == "llama3.2:latest"

PromptKeys ==
    { <<"m", "a", "t", "h">>,
      <<"p", "h", "y", "s", "i", "c", "s">>,
      <<"c", "h", "e", "m", "i", "s", "t", "r", "y">>,
      <<"w", "o", "r", "d", "_", "p", "r", "o", "b", "l", "e", "m">>,
      <<"g", "e", "n", "e", "r", "a", "l">> }

\* lines 227-230: the prompt of the problem type, or the general one, with
\* the guidance not to give the answer when show_answer is false
system_prompt(problem_type, show_answer) ==
    [ key |-> IF problem_type.val \in PromptKeys THEN problem_type.val
              ELSE <<"g", "e", "n", "e", "r", "a", "l">>,
      no_answer |-> ~show_answer ]

\* check_model_status and _has_vision_model: no client or a failing
\* client.list() report no vision model; otherwise a model whose name
\* contains 'llava' reports one
_has_vision_model(instance, models) ==
    /\ instance.client /= "None"
    /\ ~models.raised
    /\ \E i \in DOMAIN models.names : Contains(Lower(models.names[i]), <<"l", "l", "a", "v", "a">>)

\* the truth value of image_data
image_present(image_data) ==
    image_data.type \in {"bytes", "str"} /\ Len(image_data.val) > 0

\* a plausible slip: image_data tested with 'is not None'
use_vision_not_none(image_data, instance, models) ==
    image_data.type /= "NoneType" /\ _has_vision_model(instance, models)

\* line 233: image_data and self._has_vision_model()
use_vision(image_data, instance, models) ==
    image_present(image_data) /\ _has_vision_model(instance, models)

\* lines 237-243: the record made by solve's own except clause
solve_failure(e) ==
    [ steps |-> <<>>,
      explanation |-> PyStr(<<"E", "r", "r", "o", "r", " ", "s", "o", "l", "v", "i", "n", "g", " ", "p", "r", "o", "b", "l", "e", "m", ":", " ">> \o e),
      answer |-> PyNone,
      error |-> PyStr(e) ]

\* lines 329-336: the record made when the text model fails
text_failure(e) ==
    [ steps |-> <<>>,
      explanation |-> PyStr(<<"C", "o", "u", "l", "d", " ", "n", "o", "t", " ", "c", "o", "n", "n", "e", "c", "t", " ", "t", "o", " ", "A", "I", " ", "m", "o", "d", "e", "l", ".", " ", "P", "l", "e", "a", "s", "e", " ", "e", "n", "s", "u", "r", "e", " ", "O", "l", "l", "a", "m", "a", " ", "i", "s", " ", "r", "u", "n", "n", "i", "n", "g", ".", "\n", "\n", "E", "r", "r", "o", "r", ":", " ">> \o e),
      answer |-> PyNone,
      error |-> PyStr(e) ]

\* str(e) for base64.b64encode of a str
NotBytesMessage == <<"a", " ", "b", "y", "t", "e", "s", "-", "l", "i", "k", "e", " ", "o", "b", "j", "e", "c", "t", " ", "i", "s", " ", "r", "e", "q", "u", "i", "r", "e", "d", ",", " ", "n", "o", "t", " ", "'", "s", "t", "r", "'">>

\* str(e) for self.client.chat when self.client is None
NoClientMessage == <<"'", "N", "o", "n", "e", "T", "y", "p", "e", "'", " ", "o", "b", "j", "e", "c", "t", " ", "h", "a", "s", " ", "n", "o", " ", "a", "t", "t", "r", "i", "b", "u", "t", "e", " ", "'", "c", "h", "a", "t", "'">>

\* what client.list() can give: an exception, or the names of the models
ModelLists ==
    { [raised |-> TRUE, names |-> <<>>],
      [raised |-> FALSE, names |-> <<>>],
      [raised |-> FALSE, names |-> <<<<"l", "l", "a", "m", "a", "3", ".", "2", ":", "l", "a", "t", "e", "s", "t">>>>],
      [raised |-> FALSE, names |-> <<<<"l", "l", "a", "m", "a", "3", ".", "2", ":", "l", "a", "t", "e", "s", "t">>, <<"L", "L", "a", "V", "A", ":", "7", "b">>>>] }

\* the content of a reply
ChatContents ==
    { PyStr(<<>>),
      PyStr(<<"S", "t", "e", "p", " ", "1", ":", " ", "A", "d", "d", " ", "2", " ", "a", "n", "d", " ", "3", "\n", "*", "*", "F", "i", "n", "a", "l", " ", "A", "n", "s", "w", "e", "r", ":", "*", "*", "\n", "5">>) }

\* str(e) of the exception of a failed chat: an exception need not carry a
\* message
ChatErrorMessages == { <<>>, <<"t", "i", "m", "e", "d", " ", "o", "u", "t">> }

\* the outcomes of client.chat: a reply, or an exception
ChatOutcomes ==
    {[ok |-> TRUE, content |-> c, message |-> <<>>] : c \in ChatContents}
        \cup {[ok |-> FALSE, content |-> PyNone, message |-> m] : m \in ChatErrorMessages}

\* the chat call as the engine sees it
ChatCall(model, prompt, images, outcome) ==
    [model |-> model, system |-> prompt, images |-> images, ok |-> outcome.ok,
     message |-> outcome.message]

ImageData == { PyNone, PyBytes(<<>>), PyBytes(<<"P", "N", "G">>), PyStr(<<"P", "N", "G">>) }

SolveTexts == { PyStr(<<"2", " ", "+", " ", "3">>), PyStr(<<>>) }

SolveProblemTypes == { PyStr(<<"m", "a", "t", "h">>), PyStr(<<"b", "i", "o", "l", "o", "g", "y">>) }

InitSolve ==
    /\ pc = "call"
    /\ op = "solve"
    /\ ret = Pending
    /\ args \in [image_data : ImageData, extracted_text : SolveTexts,
                 problem_type : SolveProblemTypes, show_answer : BOOLEAN]
    /\ self \in {ProblemSolver__init__(c) : c \in {"None", "Client"}}
    /\ local = NoLocals
    /\ engine \in {[models |-> m, calls |-> <<>>] : m \in ModelLists}

\* lines 227-236 and 260: the prompt, the choice of the engine, and the
\* encoding of the image, whose TypeError is caught in lines 237-243
SolveBegin ==
    /\ pc = "call" /\ op = "solve"
    /\ local' = [system_prompt |-> system_prompt(args.problem_type, args.show_answer)]
    /\ IF use_vision(args.image_data, self, engine.models)
       THEN IF args.image_data.type /= "bytes"
            THEN pc' = "done" /\ ret' = Return(solve_failure(NotBytesMessage))
            ELSE pc' = "_solve_with_vision" /\ ret' = ret
       ELSE pc' = "_solve_with_text" /\ ret' = ret
    /\ UNCHANGED <<op, args, self, engine>>

\* lines 278-298: the chat with the vision model; its reply is parsed, and
\* on an exception the text model is tried
SolveWithVision ==
    /\ pc = "_solve_with_vision"
    /\ \E o \in ChatOutcomes :
          /\ engine' = [engine EXCEPT !.calls =
                            Append(@, ChatCall(VISION_MODEL, local.system_prompt, TRUE, o))]
          /\ IF o.ok
             THEN pc' = "done"
                  /\ ret' = Return(_parse_solution(o.content, args.problem_type))
             ELSE pc' = "_solve_with_text" /\ ret' = ret
    /\ UNCHANGED <<op, args, self, local>>

\* lines 317-336: the chat with the text model; with no client the call
\* raises before any request is made
SolveWithText ==
    /\ pc = "_solve_with_text"
    /\ IF self.client = "None"
       THEN ret' = Return(text_failure(NoClientMessage)) /\ engine' = engine
       ELSE \E o \in ChatOutcomes :
              /\ engine' = [engine EXCEPT !.calls =
                               Append(@, ChatCall(TEXT_MODEL, local.system_prompt, FALSE, o))]
              /\ ret' = IF o.ok
                        THEN Return(_parse_solution(o.content, args.problem_type))
                        ELSE Return(text_failure(o.message))
    /\ pc' = "done"
    /\ UNCHANGED <<op, args, self, local>>

NextSolve == SolveBegin \/ SolveWithVision \/ SolveWithText

SpecSolve == InitSolve /\ [][NextSolve]_vars

\* the client is made with a timeout (lines 82-83), so a chat call returns
\* or raises, and every step of solve is taken
SpecSolveFair == SpecSolve /\ WF_vars(NextSolve)

\* ---------------------------------------------------------------------------
\* Claims about solve, checked under SpecSolveFair
\* ---------------------------------------------------------------------------

Solved == pc = "done" /\ op = "solve"

\* the places in the log of the calls made to this model
CallsTo(calls, model) == {i \in DOMAIN calls : calls[i].model = model}

VisionFailed(calls) == \E i \in CallsTo(calls, VISION_MODEL) : ~calls[i].ok

VisionSucceeded(calls) == \E i \in CallsTo(calls, VISION_MODEL) : calls[i].ok

TextFailed(calls) == \E i \in CallsTo(calls, TEXT_MODEL) : ~calls[i].ok

\* the vision model is reported available
VisionReported ==
    /\ self.client /= "None"
    /\ ~engine.models.raised
    /\ \E i \in DOMAIN engine.models.names :
          Contains(Lower(engine.models.names[i]), <<"l", "l", "a", "v", "a">>)

\* the engines are called as claimed
EngineCalls(calls) ==
    /\ CallsTo(calls, VISION_MODEL) /= {} => (image_present(args.image_data) /\ VisionReported)
    /\ Cardinality(CallsTo(calls, VISION_MODEL)) <= 1
    /\ Cardinality(CallsTo(calls, TEXT_MODEL)) <= 1
    /\ VisionSucceeded(calls) => CallsTo(calls, TEXT_MODEL) = {}
    /\ (Solved /\ VisionFailed(calls)) =>
          /\ Len(calls) = 2
          /\ calls[1].model = VISION_MODEL
          /\ calls[2].model = TEXT_MODEL

\* solve has not raised, and what it returns is a record
ReturnsARecord ==
    /\ ret.kind /= "raise"
    /\ Solved =>
          /\ ret.kind = "return"
          /\ {"steps", "explanation", "answer"} \subseteq DOMAIN ret.value

\* the record of a failure, with some text as its error
FailureWithError(result) ==
    /\ "error" \in DOMAIN result
    /\ result.steps = <<>>
    /\ result.answer = PyNone
    /\ result.error.type = "str"
    /\ result.error.val /= <<>>

\* the record of a failure, with the text of the exception as its error
FailureOf(result, message) ==
    /\ "error" \in DOMAIN result
    /\ result.steps = <<>>
    /\ result.answer = PyNone
    /\ result.error = PyStr(message)

\* C30 (as claimed): solve never raises and always returns a record; the
\* vision engine is called only with image data present and the vision
\* model reported available; a failed vision call is followed by exactly
\* one text call; a failed text call, or an absent client, gives steps=[],
\* answer=None and a non-empty error; no engine is called twice, and the
\* text engine is not called after a successful vision call.
C30_SolveAlwaysReturns ==
    /\ [](/\ ReturnsARecord
          /\ EngineCalls(engine.calls)
          /\ (Solved /\ (TextFailed(engine.calls) \/ self.client = "None"))
                => FailureWithError(ret.value))
    /\ <>Solved

\* C30, amended: as claimed, but the error of a failed text call is the
\* text of its exception, which is empty when the exception has no message;
\* with no client it is the message of the AttributeError, which is not
\* empty.
C30_SolveReturnsFailureText ==
    /\ [](/\ ReturnsARecord
          /\ EngineCalls(engine.calls)
          /\ (Solved /\ TextFailed(engine.calls))
                => FailureOf(ret.value, engine.calls[Len(engine.calls)].message)
          /\ (Solved /\ self.client = "None") => FailureWithError(ret.value))
    /\ <>Solved

\* a solve whose vision call failed and whose text call failed too, with
\* the message of the text call's exception as the error
C30_Witness ==
    /\ Solved
    /\ VisionFailed(engine.calls)
    /\ TextFailed(engine.calls)
    /\ engine.calls[1].message /= engine.calls[2].message
    /\ ret.value.error = PyStr(engine.calls[2].message)
    /\ ret.value.error.val /= <<>>

\* a solve whose text call failed with an exception that has no message
FailureWithEmptyError ==
    /\ Solved
    /\ TextFailed(engine.calls)
    /\ ret.value.error = PyStr(<<>>)

\* a solve answered by the vision model, with no call of the text model
VisionAnswers ==
    /\ Solved
    /\ VisionSucceeded(engine.calls)
    /\ Len(engine.calls) = 1
    /\ "error" \notin DOMAIN ret.value
    /\ ret.value.answer /= PyNone

\* ---------------------------------------------------------------------------
\* Concurrent calls on one shared MathVerifier and one shared ProblemSolver.
\* Every thread has its own frame of local variables, local[t], which starts
\* with the call's arguments; self holds the attributes of the two instances.
\* pc, op, args and ret are functions of the thread.
\* ---------------------------------------------------------------------------

MaxThreads == 2

Threads == 1..MaxThreads

\* the attributes a call can reach through self
SharedInstances ==
    [ MathVerifier |-> MathVerifier__init__,
      ProblemSolver |-> [client |-> "None", SYSTEM_PROMPTS |-> SYSTEM_PROMPTS] ]

owner(operation) ==
    IF operation = "verify_arithmetic" THEN "MathVerifier" ELSE "ProblemSolver"

\* a plausible slip: the value kept as self.name, on the shared instance
Assign_to_self(instances, frames, t, cls, name, value) ==
    [ self |-> [instances EXCEPT ![cls] = (name :> value) @@ @],
      local |-> frames ]

\* name = value in the call of thread t: a local variable of that call
Assign(instances, frames, t, cls, name, value) ==
    [ self |-> instances,
      local |-> [frames EXCEPT ![t] = (name :> value) @@ @] ]

\* the value a call reads under a name: its local variable, or else the
\* attribute of its instance
Lookup(instances, frames, t, cls, name) ==
    IF name \in DOMAIN frames[t] THEN frames[t][name] ELSE instances[cls][name]

\* lines 156-198 for the text and its lower-cased copy
infer_from(text, text_lower) ==
    IF _has_math_expressions(text)
    THEN decide_with_math(Score(physics_keywords, text_lower),
                          Score(chemistry_keywords, text_lower))
    ELSE decide_by_keywords(Score(physics_keywords, text_lower),
                            Score(chemistry_keywords, text_lower),
                            Score(math_keywords, text_lower),
                            \E k \in DOMAIN word_problem_indicators :
                                Contains(text_lower, word_problem_indicators[k]))

ConcurrentCalls ==
    { [op |-> "verify_arithmetic", args |-> [expression |-> PyStr(e), claimed_result |-> PyStr(c)]] :
          e \in {<<"2", " ", "+", " ", "3">>, <<"2", " ", "*", " ", "3">>}, c \in {<<"5">>, <<"6">>} }
    \cup
    { [op |-> "detect_problem_type", args |-> [text |-> PyStr(x), hint |-> [type |-> "str", val |-> h]]] :
          x \in {<<"m", "a", "s", "s", "(", "k", "g", ")", " ", "f", "r", "i", "c", "t", "i", "o", "n", " ", "F", "o", "r", "c", "e">>, <<"t", "o", "t", "a", "l">>}, h \in {"auto", "general"} }
    \cup
    { [op |-> "_parse_solution", args |-> [response_text |-> PyStr(r), problem_type |-> PyStr(<<"m", "a", "t", "h">>)]] :
          r \in {<<"S", "t", "e", "p", " ", "1", ":", " ", "A", "d", "d", " ", "2", " ", "a", "n", "d", " ", "3", "\n", "*", "*", "F", "i", "n", "a", "l", " ", "A", "n", "s", "w", "e", "r", ":", "*", "*", "\n", "5">>, <<"*", "*", "N", "o", "t", "e">>} }

InitConcurrent ==
    /\ \E calls \in [Threads -> ConcurrentCalls] :
          /\ op = [t \in Threads |-> calls[t].op]
          /\ args = [t \in Threads |-> calls[t].args]
          /\ local = [t \in Threads |-> calls[t].args]
    /\ pc = [t \in Threads |-> "call"]
    /\ ret = [t \in Threads |-> Pending]
    /\ self = SharedInstances
    /\ engine = NoEngine

\* thread t goes on to the next place with its variables assigned
Step(t, next, assigned) ==
    /\ pc' = [pc EXCEPT ![t] = next]
    /\ self' = assigned.self
    /\ local' = assigned.local
    /\ UNCHANGED <<op, args, ret, engine>>

\* thread t returns
Finish(t, outcome) ==
    /\ pc' = [pc EXCEPT ![t] = "done"]
    /\ ret' = [ret EXCEPT ![t] = outcome]
    /\ UNCHANGED <<op, args, self, local, engine>>

\* math_verifier.py line 77: expr = self.parse_expression(expression)
ParseExpressionText(t) ==
    /\ pc[t] = "call" /\ op[t] = "verify_arithmetic"
    /\ Step(t, "claimed",
            Assign(self, local, t, "MathVerifier", "expr",
                   parse_expression(Lookup(self, local, t, "MathVerifier", "expression"))))

\* line 78: claimed = self.parse_expression(claimed_result)
ParseClaimedText(t) ==
    /\ pc[t] = "claimed"
    /\ Step(t, "compare",
            Assign(self, local, t, "MathVerifier", "claimed",
                   parse_expression(Lookup(self, local, t, "MathVerifier", "claimed_result"))))

\* lines 80-99: the comparison and the result
CompareArithmetic(t) ==
    /\ pc[t] = "compare"
    /\ Finish(t, Outcome(except_Exception(
                   arithmetic_compare(Lookup(self, local, t, "MathVerifier", "expression"),
                                      Lookup(self, local, t, "MathVerifier", "claimed_result"),
                                      Lookup(self, local, t, "MathVerifier", "expr"),
                                      Lookup(self, local, t, "MathVerifier", "claimed")))))

\* solver.py lines 129-130: a recognized hint is returned
ReturnHint(t) ==
    /\ pc[t] = "call" /\ op[t] = "detect_problem_type"
    /\ Lookup(self, local, t, "ProblemSolver", "hint").val /= "auto"
    /\ Lookup(self, local, t, "ProblemSolver", "hint").val
          \in Lookup(self, local, t, "ProblemSolver", "SYSTEM_PROMPTS")
    /\ Finish(t, Return(Lookup(self, local, t, "ProblemSolver", "hint").val))

\* line 132: text_lower = text.lower()
LowerText(t) ==
    /\ pc[t] = "call" /\ op[t] = "detect_problem_type"
    /\ ~( /\ Lookup(self, local, t, "ProblemSolver", "hint").val /= "auto"
          /\ Lookup(self, local, t, "ProblemSolver", "hint").val
                \in Lookup(self, local, t, "ProblemSolver", "SYSTEM_PROMPTS") )
    /\ Step(t, "decide",
            Assign(self, local, t, "ProblemSolver", "text_lower",
                   Lower(Lookup(self, local, t, "ProblemSolver", "text").val)))

\* lines 156-198: the counts and the decision
DecideType(t) ==
    /\ pc[t] = "decide"
    /\ Finish(t, Return(infer_from(Lookup(self, local, t, "ProblemSolver", "text").val,
                                   Lookup(self, local, t, "ProblemSolver", "text_lower"))))

\* lines 342-359: the section map
SplitSections(t) ==
    /\ pc[t] = "call" /\ op[t] = "_parse_solution"
    /\ Step(t, "result",
            Assign(self, local, t, "ProblemSolver", "sections",
                   split_sections(split(Lookup(self, local, t, "ProblemSolver", "response_text").val, "\n"),
                                  <<>>, ExplanationKey, <<>>)))

\* lines 362-374: the steps and the record
BuildResult(t) ==
    /\ pc[t] = "result"
    /\ Finish(t, Outcome(parse_result(Lookup(self, local, t, "ProblemSolver", "response_text"),
                                      Lookup(self, local, t, "ProblemSolver", "problem_type"),
                                      Lookup(self, local, t, "ProblemSolver", "sections"),
                                      _extract_steps(Lookup(self, local, t, "ProblemSolver", "response_text")))))

NextConcurrent ==
    \E t \in Threads :
        \/ ParseExpressionText(t)
        \/ ParseClaimedText(t)
        \/ CompareArithmetic(t)
        \/ ReturnHint(t)
        \/ LowerText(t)
        \/ DecideType(t)
        \/ SplitSections(t)
        \/ BuildResult(t)

SpecConcurrent == InitConcurrent /\ [][NextConcurrent]_vars

\* ---------------------------------------------------------------------------
\* Claims about concurrent calls, checked under SpecConcurrent
\* ---------------------------------------------------------------------------

\* the outcome of the call when it runs alone
RunAlone(operation, arguments) ==
    IF operation = "verify_arithmetic"
    THEN Outcome(verify_arithmetic(arguments.expression, arguments.claimed_result))
    ELSE IF operation = "detect_problem_type"
    THEN detect_problem_type(arguments.text, arguments.hint)
    ELSE Outcome(_parse_solution(arguments.response_text, arguments.problem_type))

\* C23: no call writes the shared instances, so under every interleaving
\* of the calls' steps each call returns what it returns when run alone,
\* and two calls with the same input return the same result.
C23_CallsDoNotInterfere ==
    /\ self = SharedInstances
    /\ \A t \in Threads : pc[t] = "done" => ret[t] = RunAlone(op[t], args[t])
    /\ \A t \in Threads : \A u \in Threads :
          (pc[t] = "done" /\ pc[u] = "done" /\ op[t] = op[u] /\ args[t] = args[u])
              => ret[t] = ret[u]

\* a verify_arithmetic call that has returned its own result while another
\* one on the same instance, with another expression, is between its steps
C23_Witness ==
    /\ pc[1] = "done" /\ op[1] = "verify_arithmetic"
    /\ pc[2] = "compare" /\ op[2] = "verify_arithmetic"
    /\ local[1].expr /= local[2].expr
    /\ ret[1].kind = "return"
    /\ ret[1].value.is_correct
    /\ ret[1] = RunAlone(op[1], args[1])

\* two calls with the same input, both returned
SameInputTwice ==
    /\ pc[1] = "done" /\ pc[2] = "done"
    /\ op[1] = "_parse_solution" /\ op[2] = "_parse_solution"
    /\ args[1] = args[2]
    /\ ret[1] = ret[2]

=============================================================================
